---- MODULE Spec2Model ----
(***************************************************************************)
(* A model of rasta-rs: the RaSTA connection (client role) and the RaSTA   *)
(* listener (server role) of src/src/lib.rs, talking over one ordered,     *)
(* reliable byte stream, with the message constructors of                  *)
(* src/src/message.rs; and the SCI session layer (SCIConnection) of        *)
(* src/sci-rs/src/lib.rs, which drives a RastaConnection; the bytes of a   *)
(* Message (message.rs), the SCI telegram codec and to_bcd (scitds.rs),    *)
(* each as a function applied to inputs drawn from a bounded set.          *)
(*                                                                         *)
(* One read of the stream returns one written frame (every constructed     *)
(* message is written as its whole 1024-byte buffer and every read uses a  *)
(* 1024-byte buffer).  Blocking calls are split at their suspension point  *)
(* (the read of the reply), which is where the other side runs.            *)
(***************************************************************************)
EXTENDS Integers, Sequences, FiniteSets, TLC

\* ---------------------------------------------------------------- bounds
\* Width of a sequence number in the model.  The code uses u32; TLC's
\* integers are 32-bit signed, so the counter is modelled at a reduced width
\* with the same wrap-around / overflow-check behaviour at its maximum.
SeqBits == 4
\* Number of operations the caller of the RastaConnection starts.
MaxOps == 3
\* Number of streams (RastaConnection objects) connected to the peer, one after
\* the other.
MaxStreams == 2

\* longest data handed to a message constructor
MaxDataLen == 2

\* ------------------------------------------------------- program constants
N_SENDMAX == 65535
FIXED_INITIAL_SEQ_NR == 4
HEADER_AND_CODE_LEN == 36
CONN_MSG_LEN == 50
DISC_REQ_LEN == 40

RASTA_VERSION == <<48, 51, 48, 49>>

SeqModulus == 2 ^ SeqBits
SeqMax == SeqModulus - 1

\* Option<u32>::None
None == -1

\* ids used by the caller of the model
ClientId == 42
ListenerId == 1337
\* an id other than the one the caller asked to be connected to
ForeignId == ListenerId + 1

\* epoch seconds shown by the peer's clock while the connection's shows 1000.
\* The code copies timestamps and never compares them, so one value that
\* differs from the connection's clock stands for all.
PeerSeconds == {1001}

MessageTypes == {"ConnReq", "ConnResp", "RetrReq", "RetrResp", "DiscReq", "HB", "Data", "RetrData"}
ConnectionStates == {"Closed", "Down", "Start", "Up"}

\* ------------------------------------------------------------- message.rs

\* x + 1 on a sequence number in a build without overflow checks
WrappingSucc(x) == (x + 1) % SeqModulus
\* x + 1 panics in a build with overflow checks exactly when x is the maximum
SuccOverflows(x) == x = SeqMax

\* MessageBuilder: the fields written into the 1024-byte buffer.  data is the
\* byte string copied to offset 34; the rest of the buffer stays zero.
BuildMessage(len, mt, rcv, snd, sn, csn, ts, cts, d) ==
    [length |-> len, message_type |-> mt, receiver |-> rcv, sender |-> snd,
     sequence_number |-> sn, confirmed_sequence_number |-> csn,
     timestamp |-> ts, confirmed_timestamp |-> cts, data |-> d]

\* the 14 data bytes of ConnReq / ConnResp: version at 0..4, n_sendmax at 5..7
ConnData(version, n_sendmax) ==
    version \o <<0, n_sendmax % 256, n_sendmax \div 256>> \o <<0, 0, 0, 0, 0, 0, 0>>

connection_request(rcv, snd, ts, n_sendmax, initial_seq_nr) ==
    BuildMessage(CONN_MSG_LEN, "ConnReq", rcv, snd, initial_seq_nr, 0, ts, 0,
                 ConnData(RASTA_VERSION, n_sendmax))

\* a connection_response that repeats the confirmed sequence number as its own
connection_response_SameSeq(rcv, snd, csn, ts, cts, n_sendmax) ==
    BuildMessage(CONN_MSG_LEN, "ConnResp", rcv, snd, csn, csn, ts, cts,
                 ConnData(RASTA_VERSION, n_sendmax))

connection_response(rcv, snd, csn, ts, cts, n_sendmax) ==
    BuildMessage(CONN_MSG_LEN, "ConnResp", rcv, snd, WrappingSucc(csn), csn, ts, cts,
                 ConnData(RASTA_VERSION, n_sendmax))

heartbeat(rcv, snd, sn, csn, ts, cts) ==
    BuildMessage(HEADER_AND_CODE_LEN, "HB", rcv, snd, sn, csn, ts, cts, <<>>)

disconnection_request(rcv, snd, sn, csn, ts, cts) ==
    BuildMessage(DISC_REQ_LEN, "DiscReq", rcv, snd, sn, csn, ts, cts, <<>>)

data_message(rcv, snd, sn, csn, ts, cts, d) ==
    BuildMessage(HEADER_AND_CODE_LEN + Len(d), "Data", rcv, snd, sn, csn, ts, cts, d)

\* Message::from(&[u8]) followed by data(): the received message's data is the
\* length - 36 bytes at offset 34 of the received buffer.
MessageFrom(w) ==
    [w EXCEPT !.data = [i \in 1..(w.length - HEADER_AND_CODE_LEN) |->
                           IF i <= Len(w.data) THEN w.data[i] ELSE 0]]

retransmission_request(rcv, snd, sn, csn, ts, cts) ==
    BuildMessage(HEADER_AND_CODE_LEN, "RetrReq", rcv, snd, sn, csn, ts, cts, <<>>)

retransmission_response(rcv, snd, sn, csn, ts, cts) ==
    BuildMessage(HEADER_AND_CODE_LEN, "RetrResp", rcv, snd, sn, csn, ts, cts, <<>>)

retransmitted_data_message(rcv, snd, sn, csn, ts, cts, d) ==
    BuildMessage(HEADER_AND_CODE_LEN + Len(d), "RetrData", rcv, snd, sn, csn, ts, cts, d)

\* ------------------------------------------- message.rs, the bytes of a message
\* Message { content, data_len }: content is the 1024-byte buffer of a
\* constructed message, or the bytes received of a decoded one

BUFFER_LEN == 1024

\* enum MessageType (repr u16)
MessageTypeCode ==
    ("ConnReq" :> 6200) @@ ("ConnResp" :> 6201) @@ ("RetrReq" :> 6212) @@
    ("RetrResp" :> 6213) @@ ("DiscReq" :> 6216) @@ ("HB" :> 6220) @@
    ("Data" :> 6240) @@ ("RetrData" :> 6241)

\* a code that names no message type
OtherTypeCode == MessageTypeCode["ConnReq"] - 1

\* byte orders a build of the program can have for to_ne_bytes / from_ne_bytes
Endians == {"little", "big"}

Reverse(b) == [i \in 1..Len(b) |-> b[Len(b) + 1 - i]]

RECURSIVE LittleEndianValue(_)
LittleEndianValue(b) ==
    IF b = <<>> THEN 0 ELSE Head(b) + 256 * LittleEndianValue(Tail(b))

\* x.to_ne_bytes() of an n-byte integer
to_ne_bytes(x, n, e) ==
    LET le == [i \in 1..n |-> (x \div (256 ^ (i - 1))) % 256]
    IN  IF e = "little" THEN le ELSE Reverse(le)

\* from_ne_bytes(bytes)
from_ne_bytes(b, e) == LittleEndianValue(IF e = "little" THEN b ELSE Reverse(b))

\* content[off..off + bytes.len()].copy_from_slice(bytes)
copy_from_slice(content, off, bytes) ==
    [i \in 1..Len(content) |->
        IF i > off /\ i <= off + Len(bytes) THEN bytes[i - off] ELSE content[i]]

\* MessageBuilder: new(), the setters in the order of the constructors,
\* build().  m holds the constructor's arguments for the setters.
MessageBuilt(m, e) ==
    LET c0 == [i \in 1..BUFFER_LEN |-> 0]
        c1 == copy_from_slice(c0, 0, to_ne_bytes(m.length, 2, e))
        c2 == copy_from_slice(c1, 3, to_ne_bytes(MessageTypeCode[m.message_type], 2, e))
        c3 == copy_from_slice(c2, 6, to_ne_bytes(m.receiver, 4, e))
        c4 == copy_from_slice(c3, 10, to_ne_bytes(m.sender, 4, e))
        c5 == copy_from_slice(c4, 15, to_ne_bytes(m.sequence_number, 4, e))
        c6 == copy_from_slice(c5, 19, to_ne_bytes(m.confirmed_sequence_number, 4, e))
        c7 == copy_from_slice(c6, 24, to_ne_bytes(m.timestamp, 4, e))
        c8 == copy_from_slice(c7, 29, to_ne_bytes(m.confirmed_timestamp, 4, e))
        c9 == copy_from_slice(c8, 34, m.data)
        c10 == copy_from_slice(c9, BUFFER_LEN - 8, <<0, 0, 0, 0, 0, 0, 0, 0>>)
    IN  [content |-> c10, data_len |-> <<Len(m.data)>>]

\* impl Deref for Message: the slice handed to write
MessageDeref(msg) == msg.content

\* impl From<&[u8]> for Message: a message, or a panic (content[0..2] out of
\* range; length - 36 below zero in a build that checks overflow, oc).
\* Without the check the u16 difference wraps.
Message_from(val, e, oc) ==
    IF Len(val) < 2 THEN [kind |-> "panic", msg |-> <<>>]
    ELSE LET length == from_ne_bytes(SubSeq(val, 1, 2), e) IN
         IF length >= HEADER_AND_CODE_LEN
         THEN [kind |-> "Ok",
               msg |-> <<[content |-> val, data_len |-> <<length - HEADER_AND_CODE_LEN>>]>>]
         ELSE IF oc THEN [kind |-> "panic", msg |-> <<>>]
         ELSE [kind |-> "Ok",
               msg |-> <<[content |-> val,
                          data_len |-> <<length - HEADER_AND_CODE_LEN + 65536>>]>>]

\* what stands for the value of an accessor that panics
Panic == None - 1

\* an accessor reading n bytes at off: the value, or Panic when the slice is
\* out of range
MessageField(msg, off, n, e) ==
    IF Len(msg.content) < off + n THEN Panic
    ELSE from_ne_bytes(SubSeq(msg.content, off + 1, off + n), e)

\* Message::message_type: MessageType::try_from(code).unwrap()
Message_message_type(msg, e) ==
    LET code == MessageField(msg, 3, 2, e) IN
    IF code = Panic \/ ~(\E t \in DOMAIN MessageTypeCode : MessageTypeCode[t] = code)
    THEN "panic"
    ELSE CHOOSE t \in DOMAIN MessageTypeCode : MessageTypeCode[t] = code

\* Message::data: content[34..34 + data_len.unwrap()]
Message_data(msg) ==
    IF msg.data_len = <<>> \/ Len(msg.content) < 34 + msg.data_len[1] THEN <<Panic>>
    ELSE SubSeq(msg.content, 35, 34 + msg.data_len[1])

\* what the accessors of a message return
MessageView(msg, e) ==
    [length |-> MessageField(msg, 0, 2, e),
     message_type |-> Message_message_type(msg, e),
     receiver |-> MessageField(msg, 6, 4, e),
     sender |-> MessageField(msg, 10, 4, e),
     sequence_number |-> MessageField(msg, 15, 4, e),
     confirmed_sequence_number |-> MessageField(msg, 19, 4, e),
     timestamp |-> MessageField(msg, 24, 4, e),
     confirmed_timestamp |-> MessageField(msg, 29, 4, e),
     data |-> Message_data(msg)]

\* a received buffer as RastaListener::listen decodes it: Message::from, then
\* message_type(), sender(), receiver(), sequence_number() and
\* confirmed_sequence_number().  The result is a message or a panic.
ListenDecode(val, e, oc) ==
    LET r == Message_from(val, e, oc) IN
    IF r.kind = "panic" THEN r
    ELSE LET v == MessageView(r.msg[1], e) IN
         IF \/ v.message_type = "panic"
            \/ Panic \in {v.sender, v.receiver, v.sequence_number,
                          v.confirmed_sequence_number}
         THEN [kind |-> "panic", msg |-> <<>>]
         ELSE r

\* ---------------------------------------------------- sci-rs/src/lib.rs
SCI_NAME_LEN == 20
SCI_NAME_PAD == 95
SCI_PAYLOAD_LEN == 85
SCIProtocolP == 64
scip_change_location == 1
PointLocationChangeToLeft == 2

\* names are the byte strings of their UTF-8 text: "C", "S" and "X"
NameC == <<67>>
NameS == <<83>>
NameX == <<88>>

\* str_to_sci_name: the first 20 bytes of the name, padded with '_'
str_to_sci_name(name) ==
    [i \in 1..SCI_NAME_LEN |-> IF i <= Len(name) THEN name[i] ELSE SCI_NAME_PAD]

\* SCIPayload::from_slice
SCIPayload_from_slice(d) ==
    [data |-> [i \in 1..SCI_PAYLOAD_LEN |-> IF i <= Len(d) THEN d[i] ELSE 0],
     used |-> Len(d)]

\* SCITelegram::change_location
change_location(sender, receiver, to) ==
    [protocol_type |-> SCIProtocolP, message_type |-> scip_change_location,
     sender |-> sender, receiver |-> receiver, payload |-> SCIPayload_from_slice(<<to>>)]

\* impl From<SCITelegram> for Vec<u8>
TelegramBytes(t) ==
    <<t.protocol_type, t.message_type % 256, t.message_type \div 256>>
    \o str_to_sci_name(t.sender) \o str_to_sci_name(t.receiver)
    \o (IF t.payload.used > 0 THEN t.payload.data ELSE <<>>)

\* ProtocolType::try_from(u8): only TDS, P and LS are accepted
SCIProtocolTDS == 32
SCIProtocolLS == 48
\* enum ProtocolType: AIS, TDS, LS, P, RBC, LX, TCS, GIO, ELX
ProtocolTypes == {1, SCIProtocolTDS, SCIProtocolLS, SCIProtocolP, 80, 96, 112, 144, 192}

ProtocolType_try_from(v) == v \in {SCIProtocolTDS, SCIProtocolP, SCIProtocolLS}

\* the message-type codes of impl_sci_message_type! in lib.rs (generic),
\* scip.rs, scils.rs and scitds.rs
scip_location_status == 11
GenericNames ==
    (36 :> "VersionRequest") @@ (37 :> "VersionResponse") @@ (33 :> "StatusRequest") @@
    (34 :> "StatusBegin") @@ (35 :> "StatusFinish") @@ (39 :> "Close") @@
    (40 :> "ReleaseForMaintenance") @@ (41 :> "Available") @@ (42 :> "NotAvailable") @@
    (43 :> "Reset") @@ (12 :> "Timeout")
ScipNames == (scip_change_location :> "ChangeLocation") @@ (scip_location_status :> "LocationStatus")
ScilsNames ==
    (1 :> "ShowSignalAspect") @@ (2 :> "ChangeBrightness") @@ (3 :> "SignalAspectStatus") @@
    (4 :> "BrightnessStatus")
ScitdsNames ==
    (1 :> "FC") @@ (2 :> "UpdateFillingLevel") @@ (3 :> "DRFC") @@ (8 :> "Cancel") @@
    (6 :> "CommandRejected") @@ (7 :> "TvpsOccupancyStatus") @@ (16 :> "TvpsFcPFailed") @@
    (17 :> "TvpsFcPAFailed") @@ (18 :> "AdditionalInformation") @@ (11 :> "TdpStatus")

\* try_as_sci_message_type: the name of a generic code, or the error
try_as_sci_message_type(c) ==
    IF c \in DOMAIN GenericNames THEN GenericNames[c] ELSE "UnknownMessageType"

\* try_as_scip_message_type, try_as_scils_message_type,
\* try_as_scitds_message_type: the protocol's own codes first, then the
\* generic ones
try_as_scip_message_type(c) ==
    IF c \in DOMAIN ScipNames THEN ScipNames[c] ELSE try_as_sci_message_type(c)
try_as_scils_message_type(c) ==
    IF c \in DOMAIN ScilsNames THEN ScilsNames[c] ELSE try_as_sci_message_type(c)
try_as_scitds_message_type(c) ==
    IF c \in DOMAIN ScitdsNames THEN ScitdsNames[c] ELSE try_as_sci_message_type(c)

\* try_as_*_message_type_from under protocol p (all of the features scip,
\* scils and scitds enabled): TRUE when the code is accepted
MessageTypeResolves(p, c) ==
    CASE p = SCIProtocolP -> try_as_scip_message_type(c) # "UnknownMessageType"
      [] p = SCIProtocolLS -> try_as_scils_message_type(c) # "UnknownMessageType"
      [] p = SCIProtocolTDS -> try_as_scitds_message_type(c) # "UnknownMessageType"
      [] OTHER -> FALSE

\* String::from_utf8_lossy(bytes) as the bytes of the resulting string, for
\* bytes of one- and two-byte characters: an ASCII byte is kept, a lead byte
\* 0xC2..0xDF is kept with the continuation byte that follows it, and a byte
\* that is neither becomes U+FFFD (EF BF BD)
RECURSIVE from_utf8_lossy(_)
from_utf8_lossy(b) ==
    IF b = <<>> THEN <<>>
    ELSE IF Head(b) < 128 THEN <<Head(b)>> \o from_utf8_lossy(Tail(b))
    ELSE IF Head(b) \in 194..223 /\ Len(b) >= 2 /\ b[2] \in 128..191
    THEN <<b[1], b[2]>> \o from_utf8_lossy(Tail(Tail(b)))
    ELSE <<239, 191, 189>> \o from_utf8_lossy(Tail(b))

\* impl TryFrom<&[u8]> for SCITelegram: Ok(telegram), Err(error) or a panic
\* (an index or a slice out of range, a payload longer than the buffer)
TelegramDecoded(t) == [kind |-> "Ok", telegram |-> <<t>>, err |-> "none"]
TelegramError(e) == [kind |-> "Err", telegram |-> <<>>, err |-> e]
TelegramPanic == [kind |-> "panic", telegram |-> <<>>, err |-> "none"]

TelegramFrom(value) ==
    IF Len(value) < 1 THEN TelegramPanic
    ELSE IF ~ProtocolType_try_from(value[1]) THEN TelegramError("UnknownProtocol")
    ELSE IF Len(value) < 3 THEN TelegramPanic
    ELSE IF ~MessageTypeResolves(value[1], value[2] + 256 * value[3])
         THEN TelegramError("UnknownMessageType")
    ELSE IF Len(value) < 3 + 2 * SCI_NAME_LEN THEN TelegramPanic
    ELSE IF Len(value) - (3 + 2 * SCI_NAME_LEN) > SCI_PAYLOAD_LEN THEN TelegramPanic
    ELSE TelegramDecoded(
        [protocol_type |-> value[1], message_type |-> value[2] + 256 * value[3],
         sender |-> from_utf8_lossy(SubSeq(value, 4, 3 + SCI_NAME_LEN)),
         receiver |-> from_utf8_lossy(SubSeq(value, 4 + SCI_NAME_LEN, 3 + 2 * SCI_NAME_LEN)),
         payload |-> SCIPayload_from_slice(SubSeq(value, 4 + 2 * SCI_NAME_LEN, Len(value)))])

\* SCITelegram::location_status, and the locations of scip.rs
PointLocationChangeToRight == 1
PointLocationRight == 1
PointLocationLeft == 2
location_status(sender, receiver, location) ==
    [protocol_type |-> SCIProtocolP, message_type |-> scip_location_status,
     sender |-> sender, receiver |-> receiver,
     payload |-> SCIPayload_from_slice(<<location>>)]

\* scitds.rs, to_bcd: the assertion on the digits, then two u8 sums and
\* u16::from_be_bytes.  The result is <<value>>, or <<>> for the panic of the
\* assertion.
to_bcd_Unchecked(digits) ==
    LET digit_0 == (((digits[1] * 16) % 256) + digits[2]) % 256
        digit_1 == (((digits[3] * 16) % 256) + digits[4]) % 256
    IN  <<digit_0 * 256 + digit_1>>

to_bcd(digits) ==
    IF \E i \in 1..4 : digits[i] > 9 THEN <<>>
    ELSE LET digit_0 == (((digits[1] * 16) % 256) + digits[2]) % 256
             digit_1 == (((digits[3] * 16) % 256) + digits[4]) % 256
         IN  <<digit_0 * 256 + digit_1>>

\* scils.rs: the enums of a signal aspect, each by the u8 codes its try_from
\* accepts.  A variant is written as its discriminant (the value of `as u8`);
\* for these enums try_from accepts exactly the discriminants.
SCILSCodes ==
    [main |-> 1..10 \cup {160, 161, 162, 176, 177, 178, 255},
     additional |-> 1..5 \cup {255},
     zs3 |-> 1..15 \cup {255},
     zs2 |-> 1..26 \cup {255},
     depreciation_information |-> {1, 2, 3, 255},
     dark_switching |-> {1, 255}]

\* SCILSDrivewayInformation: Way1..Way4 = 1..4, NoInformation = 0xF.
\* try_from(u8): <<variant>> or <<>> for the error; NoInformation is matched
\* by 0xFF
SCILSDrivewayInformation_try_from(v) ==
    IF v \in 1..4 THEN <<v>> ELSE IF v = 255 THEN <<15>> ELSE <<>>

\* impl From<SCILSSignalAspect> for SCIPayload: nine bytes; the driveway byte
\* is (downstream << 4) | upstream in u8 (the shifted value has no low bits
\* and upstream is below 16, so the or is a sum)
SignalAspectPayload(a) ==
    SCIPayload_from_slice(
        <<a.main, a.additional, a.zs3, a.zs3v, a.zs2, a.zs2v, a.depreciation_information,
          ((a.downstream_driveway_information * 16) % 256) + a.upstream_driveway_information,
          a.dark_switching>>)

\* impl TryFrom<&[u8]> for SCILSSignalAspect: the fields in the order of the
\* code, each an index (panic when out of range) and a try_from (error when
\* the code is not accepted), then value[9..18]
SignalAspect_try_from(value) ==
    LET fields == <<"main", "additional", "zs3", "zs3", "zs2", "zs2",
                    "depreciation_information">>
        bad(i) == IF i <= 7 THEN value[i] \notin SCILSCodes[fields[i]]
                  ELSE IF i = 8
                  THEN SCILSDrivewayInformation_try_from(value[8] \div 16) = <<>>
                  ELSE IF i = 9
                  THEN SCILSDrivewayInformation_try_from(value[8] % 16) = <<>>
                  ELSE value[9] \notin SCILSCodes.dark_switching
        \* the byte read by step i
        at(i) == IF i <= 8 THEN i ELSE i - 1
        stops == {i \in 1..10 : Len(value) < at(i) \/ bad(i)}
        first == CHOOSE i \in stops : \A j \in stops : i <= j
    IN  IF stops # {}
        THEN [kind |-> IF Len(value) < at(first) THEN "panic" ELSE "Err", aspect |-> <<>>]
        ELSE IF Len(value) < 18 THEN [kind |-> "panic", aspect |-> <<>>]
        ELSE [kind |-> "Ok",
              aspect |-> <<[main |-> value[1], additional |-> value[2], zs3 |-> value[3],
                            zs3v |-> value[4], zs2 |-> value[5], zs2v |-> value[6],
                            depreciation_information |-> value[7],
                            upstream_driveway_information |->
                                SCILSDrivewayInformation_try_from(value[8] % 16)[1],
                            downstream_driveway_information |->
                                SCILSDrivewayInformation_try_from(value[8] \div 16)[1],
                            dark_switching |-> value[9],
                            nationally_specified_information |-> SubSeq(value, 10, 18)]>>]

\* scitds.rs: the enums of the occupancy status, each by the discriminants
\* listed in its enumerate! block
TdsCodes ==
    [occupancy_status |-> 1..6,
     pom_status |-> {1, 2, 255},
     disturbance_status |-> {1, 2, 255},
     change_trigger |-> 1..6 \cup {255}]

\* try_from(u8) of an enum declared with enumerate!: <<variant>> for a listed
\* discriminant, <<>> for the error (unknown payload enum value)
EnumerateTryFrom(codes, v) == IF v \in codes THEN <<v>> ELSE <<>>

\* an SCIPayload read as a slice (len(), indexing): the used part of the
\* 85-byte buffer
SCIPayload_deref(p) == SubSeq(p.data, 1, p.used)

\* the two big-endian bytes of a 16-bit value (i16 in two's complement, u16)
to_be_bytes(x) ==
    LET u == (x + 65536) % 65536 IN <<u \div 256, u % 256>>

\* SCITelegram::tvps_occupancy_status
tvps_occupancy_status(sender, receiver, occupancy_status, can_be_forced_to_clear, filling_level, pom_status, disturbance_status, change_trigger) ==
    [protocol_type |-> SCIProtocolTDS, message_type |-> 7,
     sender |-> sender, receiver |-> receiver,
     payload |-> SCIPayload_from_slice(
         <<occupancy_status, IF can_be_forced_to_clear THEN 1 ELSE 2>>
         \o to_be_bytes(filling_level)
         \o <<pom_status, disturbance_status, change_trigger>>)]

\* impl TryFrom<SCIPayload> for OccupancyStatusPayload: the length check, then
\* the fields in the order of the code; unreachable!() is a panic
OccupancyStatusPayload_try_from(payload) ==
    LET value == SCIPayload_deref(payload)
        Err == [kind |-> "Err", value |-> <<>>]
    IN  IF Len(value) # 7 THEN Err
        ELSE IF EnumerateTryFrom(TdsCodes.occupancy_status, value[1]) = <<>> THEN Err
        ELSE IF value[2] \notin {1, 2} THEN [kind |-> "panic", value |-> <<>>]
        ELSE IF EnumerateTryFrom(TdsCodes.pom_status, value[5]) = <<>> THEN Err
        ELSE IF EnumerateTryFrom(TdsCodes.disturbance_status, value[6]) = <<>> THEN Err
        ELSE IF EnumerateTryFrom(TdsCodes.change_trigger, value[7]) = <<>> THEN Err
        ELSE [kind |-> "Ok",
              value |-> <<[occupancy_status |->
                               EnumerateTryFrom(TdsCodes.occupancy_status, value[1])[1],
                           can_be_forced_to_clear |-> (value[2] = 2),
                           filling_level |-> value[3] * 256 + value[4],
                           pom_status |-> EnumerateTryFrom(TdsCodes.pom_status, value[5])[1],
                           disturbance_status |->
                               EnumerateTryFrom(TdsCodes.disturbance_status, value[6])[1],
                           change_trigger |->
                               EnumerateTryFrom(TdsCodes.change_trigger, value[7])[1]]>>]

\* impl From<OccupancyStatusPayload> for SCIPayload
OccupancyStatusPayload_into(v) ==
    SCIPayload_from_slice(
        <<v.occupancy_status, IF v.can_be_forced_to_clear THEN 2 ELSE 1>>
        \o to_be_bytes(v.filling_level)
        \o <<v.pom_status, v.disturbance_status, v.change_trigger>>)

\* the sci_name_rasta_id_mapping of the examples
SciNameRastaIdMapping == (NameC :> ClientId) @@ (NameS :> ListenerId)

\* ------------------------------------------------------------ input sets
\* telegrams the caller hands to send_telegram: to a mapped name and to a
\* name that is no key of the mapping
Telegrams == {change_location(NameC, r, PointLocationChangeToLeft) : r \in {NameS, NameX}}


\* telegrams the callback of SCIConnection::run returns: the first telegram of
\* examples/scip_sender.rs, the same to the right, and a telegram that the
\* callback of scip_receiver.rs answers with None
RunTelegrams ==
    {change_location(NameC, NameS, PointLocationChangeToLeft),
     change_location(NameC, NameS, PointLocationChangeToRight),
     location_status(NameC, NameS, PointLocationLeft)}
\* peer names the caller hands to SCIConnection::run
RunPeers == {NameS, NameX}

\* data handed to data_message / retransmitted_data_message
RECURSIVE DataUpTo(_)
DataUpTo(n) ==
    IF n = 0 THEN {<<>>} ELSE DataUpTo(n - 1) \cup {Append(d, 7) : d \in DataUpTo(n - 1)}
\* sequence numbers handed to a constructor (one, two and three bytes wide)
CodecSeqNrs == {5, 66051}
\* the constructed messages: every kind, between the ids of the examples
ConstructedMessages ==
    UNION {
      {connection_request(ListenerId, ClientId, 1000, N_SENDMAX, FIXED_INITIAL_SEQ_NR),
       connection_response(ClientId, ListenerId, sn, 1001, 1000, N_SENDMAX),
       retransmission_request(ListenerId, ClientId, sn, 258, 1000, 1001),
       retransmission_response(ClientId, ListenerId, sn, 258, 1001, 1000),
       heartbeat(ListenerId, ClientId, sn, 258, 1000, 1001),
       disconnection_request(ListenerId, ClientId, sn, 258, 1000, 1001)}
      \cup {data_message(ListenerId, ClientId, sn, 258, 1000, 1001, d) : d \in DataUpTo(MaxDataLen)}
      \cup {retransmitted_data_message(ListenerId, ClientId, sn, 258, 1000, 1001, d) :
                d \in DataUpTo(MaxDataLen)}
      : sn \in CodecSeqNrs}
\* the numbers of bytes a read of the stream can return for a written message
ReadLengths == {1, 20, HEADER_AND_CODE_LEN, BUFFER_LEN}

\* names handed to a telegram: "C", "S", a name with a control character,
\* names of 20 and of 21 bytes, and a name whose 20th and 21st bytes are one
\* two-byte character
CodecNames ==
    LET Name20 == [i \in 1..SCI_NAME_LEN |-> 64 + i]
        Name21 == Append(Name20, 85)
        NameTab == <<67, 9>>
        NameSplit == [i \in 1..SCI_NAME_LEN - 1 |-> 96 + i] \o <<195, 169>>
    IN  {NameC, NameS, NameTab, Name20, Name21, NameSplit}
\* payloads: empty, one byte, three bytes, the whole buffer
CodecPayloads ==
    {SCIPayload_from_slice(d) : d \in {<<>>, <<2>>, <<1, 2, 3>>, [i \in 1..SCI_PAYLOAD_LEN |-> 1]}}
\* protocol bytes: the variants of ProtocolType and a byte that is none
CodecProtocols == ProtocolTypes \cup {0}
\* message-type codes: every code of a resolver, and two codes of none
CodecCodes ==
    DOMAIN GenericNames \cup DOMAIN ScipNames \cup DOMAIN ScilsNames \cup DOMAIN ScitdsNames
    \cup {5, 256}
\* the telegrams under the codec (the fields of SCITelegram are public)
CodecTelegrams ==
    {[protocol_type |-> p, message_type |-> c, sender |-> NameC, receiver |-> NameS,
      payload |-> SCIPayload_from_slice(<<2>>)] : p \in CodecProtocols, c \in CodecCodes}
    \cup
    {[protocol_type |-> SCIProtocolP, message_type |-> scip_change_location,
      sender |-> n1, receiver |-> n2, payload |-> pl] :
        n1 \in CodecNames, n2 \in CodecNames, pl \in CodecPayloads}
\* digits handed to to_bcd: the decimal digits and bytes that are none
BcdDigits == 0..10 \cup {255}

\* signal aspects handed to the codec: the default of every enum and other
\* variants, every driveway variant at the edges (Way1, Way4, NoInformation),
\* nationally specified bytes all zero and not
SignalAspects ==
    [main : {1, 161, 255}, additional : {255}, zs3 : {15, 255}, zs3v : {255},
     zs2 : {26, 255}, zs2v : {255}, depreciation_information : {255},
     upstream_driveway_information : {1, 4, 15},
     downstream_driveway_information : {1, 4, 15},
     dark_switching : {1, 255},
     nationally_specified_information : {[i \in 1..9 |-> 0], [i \in 1..9 |-> i]}]

\* arguments of tvps_occupancy_status: every occupancy status and flag,
\* filling levels of both signs (i16) and at its ends, every POM and
\* disturbance status, the first and the last change trigger
OccupancyArguments ==
    [occupancy_status : TdsCodes.occupancy_status,
     can_be_forced_to_clear : BOOLEAN,
     filling_level : {0, 258, 32767, -1, -32768},
     pom_status : TdsCodes.pom_status,
     disturbance_status : TdsCodes.disturbance_status,
     change_trigger : {1, 255}]

\* initial sequence number of a ConnReq: the constant 4, or (feature "rand")
\* any value; the second value lets the counters reach their maximum
InitialSeqNrs == {FIXED_INITIAL_SEQ_NR, SeqMax - 2}
\* payloads the caller hands to send_data / RastaCommand::Data
Payloads == {<<1, 2>>}
\* what the listener's on_receive callback returns: None or Some(bytes)
CallbackReturns == {<<>>, <<<<5, 6>>>>}
\* a version a foreign peer may answer with
OTHER_VERSION == <<48, 51, 48, 50>>

\* ----------------------------------------------------------------- state
VARIABLES
    conn,           \* RastaConnection: state, id, peer, seq_nr, confirmed_timestamp
    cpc,            \* where the caller's thread is inside the connection's code
    inRun,          \* the current operation was called by run
    previous_data,  \* run: Option<Vec<u8>> handed to the next callback
    runRes,         \* result of run: "none", "running", "Ok" or the error
    c_last,         \* the last operation of the connection: arguments, result, frames
    nOps,           \* operations started by the caller so far
    handshake,      \* sequence number of the ConnResp of the last successful
                    \* open_connection and the send_data calls that returned Ok
                    \* since, with no other sending operation in between
    listener,       \* RastaListener: connections, id, seq_nr, last_message_timestamp
    lpc,            \* where listen is: "accept", "read", "returned", "panicked"
    listenResult,   \* result of listen once it returned
    l_last,         \* the last step of the listener's read loop
    c2l,            \* frames written by the connection, not yet read by the peer
    l2c,            \* frames written by the peer, not yet read by the connection
    cstream,        \* the connection's end of the stream: "open" or "closed"
    lstream,        \* the peer's end: "pending" (not accepted), "open", "closed"
    now,            \* epoch seconds on the connection's host
    peerNow,        \* epoch seconds on the peer's host
    peerKind,       \* "listener": a RastaListener; "foreign": any other RaSTA peer
    nStreams,       \* streams connected to the peer so far
    codec,          \* the message under the codec: the constructor's arguments,
                    \* the message built, the bytes written and read, the
                    \* result of decoding
    sci             \* SCIConnection (which owns conn): the name mapping, the
                    \* telegram of a send_telegram that is opening the
                    \* connection, and the last operation of the session

vars == <<conn, cpc, inRun, previous_data, runRes, c_last, nOps, handshake, listener, lpc,
          listenResult, l_last, c2l, l2c, cstream, lstream, now, peerNow, peerKind,
          nStreams, sci, codec>>

connVars == <<conn, cpc, inRun, previous_data, runRes, c_last, nOps, handshake, cstream>>
listenerVars == <<listener, lpc, listenResult, l_last>>
\* what no operation of the RaSTA connection or listener touches
envVars == <<now, peerNow, peerKind, nStreams, sci, codec>>

\* a call of a public operation that has not returned yet
\* (prev: the call before it)
Call(op) ==
    [op |-> op, res |-> "pending", pre_state |-> conn.state, pre_seq_nr |-> conn.seq_nr,
     pre_peer |-> conn.peer, pre_cts |-> conn.confirmed_timestamp,
     wrote |-> <<>>, reply |-> <<>>,
     prev |-> [op |-> c_last.op, res |-> c_last.res, pre_state |-> c_last.pre_state,
               nwrote |-> Len(c_last.wrote)]]

NoHandshake == [base |-> None, n |-> 0]

NoStep ==
    [event |-> "none", msg |-> <<>>, late |-> FALSE, known |-> FALSE,
     pre_seq_nr |-> None, pre_connections |-> <<>>, replies |-> <<>>, cb |-> 0,
     ret |-> <<>>, outcome |-> "none"]

\* RastaConnection::try_new: the connection as constructed
NewConnection ==
    [state |-> "Down", id |-> ClientId, peer |-> 0, seq_nr |-> None,
     confirmed_timestamp |-> 0]

\* the record of the construction of a connection
Constructed ==
    [op |-> "try_new", res |-> "Ok", pre_state |-> "Down", pre_seq_nr |-> None,
     pre_peer |-> 0, pre_cts |-> 0, wrote |-> <<>>, reply |-> <<>>,
     prev |-> [op |-> "none", res |-> "none", pre_state |-> "Down", nwrote |-> 0]]

\* SCIConnection::try_new(conn, "C", mapping) on the new connection
NewSession ==
    [mapping |-> SciNameRastaIdMapping, pending |-> <<>>, run_pending |-> <<>>,
     last |-> [op |-> "try_new", telegram |-> <<>>, res |-> "Ok", pre_state |-> "Down",
               pre_seq_nr |-> None, pre_mapping |-> SciNameRastaIdMapping,
               wrote |-> <<>>, prev_res |-> "none"]]

\* nothing under the codec
NoCodec == [step |-> "none"]

\* RastaConnection::try_new and RastaListener::try_new; the connection's
\* stream is connected and waits in the listener's backlog
InitEndpoints ==
    /\ conn = NewConnection
    /\ cpc = "idle"
    /\ inRun = FALSE
    /\ previous_data = <<>>
    /\ runRes = "none"
    /\ c_last = Constructed
    /\ nOps = 0
    /\ handshake = NoHandshake
    /\ listener = [connections |-> <<>>, id |-> ListenerId, seq_nr |-> None,
                   last_message_timestamp |-> None]
    /\ lpc = "accept"
    /\ listenResult = "none"
    /\ l_last = NoStep
    /\ c2l = <<>>
    /\ l2c = <<>>
    /\ cstream = "open"
    /\ peerKind \in {"listener", "foreign"}
    /\ lstream = IF peerKind = "listener" THEN "pending" ELSE "open"
    /\ now = 1000
    /\ peerNow \in PeerSeconds
    /\ nStreams = 1
    /\ sci = NewSession

Init == InitEndpoints /\ codec = NoCodec

\* --------------------------------------------------- RastaConnection (lib.rs)

\* a write on a stream whose peer end is closed may be reported as an error
WriteOutcomes == IF lstream = "closed" THEN {TRUE, FALSE} ELSE {TRUE}
\* a read with nothing to read: the read timer expires; after the peer closed
\* its end the read returns 0 bytes (Message::from indexes the empty buffer
\* and panics) or an I/O error
ReadFailures == IF lstream = "closed" THEN {"panic", "IOError"} ELSE {"Timeout"}

\* self.server.write(&msg): the frame reaches the peer unless its end is closed
Written(ok, msg) ==
    c2l' = IF ok /\ lstream # "closed" THEN Append(c2l, msg) ELSE c2l

\* the operation returns res to its caller (run, when r, or the user)
Returns(r, res) ==
    /\ cpc' = IF res = "panic" THEN "panicked"
              ELSE IF r /\ res = "Ok" THEN "run_cb" ELSE "idle"
    /\ inRun' = (r /\ res = "Ok")
    /\ runRes' = IF r THEN (IF res = "Ok" THEN "running" ELSE res) ELSE runRes

\* the operation blocks in a read at pc
Blocks(r, pc) ==
    /\ cpc' = pc
    /\ inRun' = r
    /\ runRes' = IF r THEN "running" ELSE runRes

\* run without the break after close_connection: the loop goes on
RunEnds_NoBreak(res) ==
    /\ cpc' = IF res = "panic" THEN "panicked" ELSE IF res = "Ok" THEN "run_cb" ELSE "idle"
    /\ inRun' = (res = "Ok")
    /\ runRes' = IF res = "Ok" THEN "running" ELSE res

\* run returns res
RunEnds(res) ==
    /\ cpc' = IF res = "panic" THEN "panicked" ELSE "idle"
    /\ inRun' = FALSE
    /\ runRes' = res

\* next_seq_nr that returns the pair without storing the new sequence number
next_seq_nr_NotStored(s) ==
    IF s # None
    THEN [self |-> s, confirmed |-> s, sequence |-> WrappingSucc(s)]
    ELSE [self |-> 0, confirmed |-> 0, sequence |-> 1]

\* next_seq_nr: the new self.seq_nr and the pair (confirmed, sequence) returned
next_seq_nr(s) ==
    IF s # None
    THEN [self |-> WrappingSucc(s), confirmed |-> s, sequence |-> WrappingSucc(s)]
    ELSE [self |-> 0, confirmed |-> 0, sequence |-> 1]

\* whether seq_nr + 1 panics: at the maximum it does in a build with overflow
\* checks and wraps in a build without them
SuccPanics(s) == IF s # None /\ SuccOverflows(s) THEN BOOLEAN ELSE {FALSE}

\* open_connection, up to the read of the reply: write the ConnReq
StartOpen(r, receiver) ==
    \E isn \in InitialSeqNrs, ok \in WriteOutcomes :
        LET msg == connection_request(receiver, conn.id, now, N_SENDMAX, isn) IN
        /\ Written(ok, msg)
        /\ c_last' = [Call("open_connection") EXCEPT
                         !.res = IF ok THEN "pending" ELSE "IOError",
                         !.wrote = IF ok THEN <<msg>> ELSE <<>>]
        /\ IF ok THEN Blocks(r, "open_recv") ELSE Returns(r, "IOError")
        /\ handshake' = NoHandshake
        /\ UNCHANGED <<conn, previous_data>>

\* open_connection comparing only the major version ("03")
OpenConnectionResult_MajorOnly(response) ==
    IF Len(response.data) < 4 THEN "panic"
    ELSE IF SubSeq(response.data, 1, 2) # SubSeq(RASTA_VERSION, 1, 2) THEN "VersionMismatch"
    ELSE "Ok"

\* open_connection: what the reply makes the call return
OpenConnectionResult(response) ==
    IF Len(response.data) < 4 THEN "panic"
    ELSE IF SubSeq(response.data, 1, 4) # RASTA_VERSION THEN "VersionMismatch"
    ELSE "Ok"

\* open_connection taking the reply's confirmed_timestamp for its timestamp
OpenConnectionUpdate_ConfirmedTs(c, response) ==
    IF OpenConnectionResult(response) = "Ok" /\ response.message_type = "ConnResp"
    THEN [c EXCEPT !.state = "Up",
                   !.seq_nr = response.sequence_number,
                   !.confirmed_timestamp = response.confirmed_timestamp,
                   !.peer = response.sender]
    ELSE c

\* open_connection: the connection after the reply
OpenConnectionUpdate(c, response) ==
    IF OpenConnectionResult(response) = "Ok" /\ response.message_type = "ConnResp"
    THEN [c EXCEPT !.state = "Up",
                   !.seq_nr = response.sequence_number,
                   !.confirmed_timestamp = response.timestamp,
                   !.peer = response.sender]
    ELSE c

\* close_connection that never has anything to do
CloseIsNoOp_Always(c) == TRUE

\* close_connection that is a no-op only before the connection was opened
CloseIsNoOp_OnlyDown(c) == c.state = "Down"

\* close_connection: nothing to do unless the state is Up
CloseIsNoOp(c) == c.state # "Up"

\* send_heartbeat that ignores the reply
HeartbeatUpdate_NoAdopt(c, response) == c

\* send_heartbeat: the connection after the reply
HeartbeatUpdate(c, response) ==
    IF response.message_type = "HB"
    THEN [c EXCEPT !.seq_nr = response.sequence_number,
                   !.confirmed_timestamp = response.timestamp]
    ELSE c

\* run capturing the data of whatever message it read
RunCapture_AnyMessage(msg) == <<msg.data>>

\* run: previous_data after the message read in the Data branch
RunCapture(msg) ==
    IF msg.message_type = "Data" THEN <<msg.data>> ELSE <<>>

\* send_data(d)
DoSendData(r, d) ==
    \E panics \in SuccPanics(conn.seq_nr), ok \in WriteOutcomes :
    IF panics
    THEN /\ c_last' = [Call("send_data") EXCEPT !.res = "panic"]
         /\ Returns(r, "panic")
         /\ handshake' = NoHandshake
         /\ UNCHANGED <<conn, c2l>>
    ELSE
        LET n == next_seq_nr(conn.seq_nr)
            msg == data_message(conn.peer, conn.id, n.sequence, n.confirmed, now,
                                conn.confirmed_timestamp, d)
        IN  /\ conn' = [conn EXCEPT !.seq_nr = n.self]
            /\ Written(ok, msg)
            /\ c_last' = [Call("send_data") EXCEPT
                             !.res = IF ok THEN "Ok" ELSE "IOError",
                             !.wrote = IF ok THEN <<msg>> ELSE <<>>]
            /\ handshake' = IF ok /\ handshake.base # None
                             THEN [handshake EXCEPT !.n = @ + 1] ELSE NoHandshake
            /\ IF ~ok THEN Returns(r, "IOError")
               ELSE IF r THEN Blocks(TRUE, "run_recv")
               ELSE Returns(FALSE, "Ok")

\* send_heartbeat, up to the read of the reply
DoSendHeartbeat(r) ==
    \E panics \in SuccPanics(conn.seq_nr), ok \in WriteOutcomes :
    IF panics
    THEN /\ c_last' = [Call("send_heartbeat") EXCEPT !.res = "panic"]
         /\ Returns(r, "panic")
         /\ UNCHANGED <<conn, c2l>>
    ELSE
        LET n == next_seq_nr(conn.seq_nr)
            msg == heartbeat(conn.peer, conn.id, n.sequence, n.confirmed, now,
                             conn.confirmed_timestamp)
        IN  /\ conn' = [conn EXCEPT !.seq_nr = n.self]
            /\ Written(ok, msg)
            /\ c_last' = [Call("send_heartbeat") EXCEPT
                             !.res = IF ok THEN "pending" ELSE "IOError",
                             !.wrote = IF ok THEN <<msg>> ELSE <<>>]
            /\ IF ok THEN Blocks(r, "hb_recv") ELSE Returns(r, "IOError")

\* close_connection; called by run's Disconnect branch when r
DoClose(r) ==
    LET Ends(res) == IF r THEN RunEnds(res) ELSE Returns(FALSE, res) IN
    IF CloseIsNoOp(conn)
    THEN /\ c_last' = [Call("close_connection") EXCEPT !.res = "Ok"]
         /\ Ends("Ok")
         /\ UNCHANGED <<conn, c2l>>
    ELSE \E panics \in SuccPanics(conn.seq_nr), ok \in WriteOutcomes :
    IF panics
    THEN /\ c_last' = [Call("close_connection") EXCEPT !.res = "panic"]
         /\ Ends("panic")
         /\ UNCHANGED <<conn, c2l>>
    ELSE
        LET n == next_seq_nr(conn.seq_nr)
            msg == disconnection_request(conn.peer, conn.id, n.sequence, n.confirmed,
                                         now, conn.confirmed_timestamp)
        IN  /\ conn' = [conn EXCEPT !.seq_nr = n.self,
                                    !.state = IF ok THEN "Closed" ELSE @]
            /\ Written(ok, msg)
            /\ c_last' = [Call("close_connection") EXCEPT
                             !.res = IF ok THEN "Ok" ELSE "IOError",
                             !.wrote = IF ok THEN <<msg>> ELSE <<>>]
            /\ Ends(IF ok THEN "Ok" ELSE "IOError")

\* what a step of the connection's caller leaves alone
CallerFrame == UNCHANGED <<listenerVars, cstream, lstream, envVars>>

CanCall == cpc = "idle" /\ cstream = "open" /\ nOps < MaxOps

\* the caller calls open_connection(ListenerId)
OpenConnection ==
    /\ CanCall
    /\ StartOpen(FALSE, ListenerId)
    /\ nOps' = nOps + 1
    /\ UNCHANGED l2c
    /\ CallerFrame

\* open_connection reads the reply
OpenConnectionReply ==
    /\ cpc = "open_recv"
    /\ l2c # <<>>
    /\ LET response == MessageFrom(Head(l2c))
           res == OpenConnectionResult(response)
       IN  /\ l2c' = Tail(l2c)
           /\ conn' = IF res = "panic" THEN conn ELSE OpenConnectionUpdate(conn, response)
           /\ c_last' = [c_last EXCEPT !.res = res, !.reply = <<response>>]
           /\ handshake' = IF res = "Ok" /\ response.message_type = "ConnResp"
                            THEN [base |-> response.sequence_number, n |-> 0]
                            ELSE NoHandshake
           /\ previous_data' = <<>>
           /\ Returns(inRun, res)
    /\ UNCHANGED <<nOps, c2l>>
    /\ CallerFrame

\* the caller calls send_data(d)
SendData ==
    /\ CanCall
    /\ \E d \in Payloads : DoSendData(FALSE, d)
    /\ nOps' = nOps + 1
    /\ UNCHANGED <<previous_data, l2c>>
    /\ CallerFrame

\* the caller calls send_heartbeat()
SendHeartbeat ==
    /\ CanCall
    /\ DoSendHeartbeat(FALSE)
    /\ handshake' = NoHandshake
    /\ nOps' = nOps + 1
    /\ UNCHANGED <<previous_data, l2c>>
    /\ CallerFrame

\* send_heartbeat reads the reply
HeartbeatReply ==
    /\ cpc = "hb_recv"
    /\ l2c # <<>>
    /\ LET response == MessageFrom(Head(l2c))
       IN  /\ l2c' = Tail(l2c)
           /\ conn' = HeartbeatUpdate(conn, response)
           /\ c_last' = [c_last EXCEPT !.res = "Ok", !.reply = <<response>>]
           /\ Returns(inRun, "Ok")
    /\ UNCHANGED <<previous_data, nOps, handshake, c2l>>
    /\ CallerFrame

\* the caller calls receive_message()
ReceiveMessage ==
    /\ CanCall
    /\ IF l2c # <<>>
       THEN /\ c_last' = [Call("receive_message") EXCEPT
                             !.res = "Ok", !.reply = <<MessageFrom(Head(l2c))>>]
            /\ l2c' = Tail(l2c)
            /\ Returns(FALSE, "Ok")
       ELSE \E res \in ReadFailures :
            /\ c_last' = [Call("receive_message") EXCEPT !.res = res]
            /\ l2c' = l2c
            /\ Returns(FALSE, res)
    /\ nOps' = nOps + 1
    /\ UNCHANGED <<conn, previous_data, handshake, c2l>>
    /\ CallerFrame

\* the caller calls close_connection()
CloseConnection ==
    /\ CanCall
    /\ DoClose(FALSE)
    /\ handshake' = NoHandshake
    /\ nOps' = nOps + 1
    /\ UNCHANGED <<previous_data, l2c>>
    /\ CallerFrame

\* the caller calls run(ListenerId, message_fn): open_connection first
Run ==
    /\ CanCall
    /\ StartOpen(TRUE, ListenerId)
    /\ nOps' = nOps + 1
    /\ UNCHANGED l2c
    /\ CallerFrame

\* run: message_fn(previous_data.take()) returns a command, which run executes
\* up to its first read
RunCallback ==
    /\ cpc = "run_cb"
    /\ nOps < MaxOps
    /\ \/ \E d \in Payloads : DoSendData(TRUE, d)
       \/ DoSendHeartbeat(TRUE) /\ handshake' = NoHandshake
       \/ DoClose(TRUE) /\ handshake' = NoHandshake
    /\ previous_data' = <<>>
    /\ nOps' = nOps + 1
    /\ UNCHANGED l2c
    /\ CallerFrame

\* run, Data branch: receive_message reads one message
RunDataReply ==
    /\ cpc = "run_recv"
    /\ l2c # <<>>
    /\ LET msg == MessageFrom(Head(l2c))
       IN  /\ l2c' = Tail(l2c)
           /\ c_last' = [Call("receive_message") EXCEPT !.res = "Ok", !.reply = <<msg>>]
           /\ previous_data' = RunCapture(msg)
           /\ Returns(TRUE, "Ok")
    /\ UNCHANGED <<conn, nOps, handshake, c2l>>
    /\ CallerFrame

\* a blocked read of the connection fails: timeout, I/O error or end of stream
ReadFails ==
    /\ cpc \in {"open_recv", "hb_recv", "run_recv"}
    /\ l2c = <<>>
    /\ \E res \in ReadFailures :
        /\ c_last' = IF cpc = "run_recv"
                     THEN [Call("receive_message") EXCEPT !.res = res]
                     ELSE [c_last EXCEPT !.res = res]
        /\ Returns(inRun, res)
    /\ UNCHANGED <<conn, previous_data, nOps, handshake, c2l, l2c>>
    /\ CallerFrame

\* impl Drop: close_connection().unwrap(), then the stream is released
Drop ==
    /\ cpc \in {"idle", "panicked"}
    /\ cstream = "open"
    /\ IF CloseIsNoOp(conn)
       THEN /\ c_last' = [Call("drop") EXCEPT !.res = "Ok"]
            /\ UNCHANGED <<conn, c2l>>
       ELSE \E panics \in SuccPanics(conn.seq_nr), ok \in WriteOutcomes :
       IF panics
       THEN /\ c_last' = [Call("drop") EXCEPT !.res = "panic"]
            /\ UNCHANGED <<conn, c2l>>
       ELSE
           LET n == next_seq_nr(conn.seq_nr)
               msg == disconnection_request(conn.peer, conn.id, n.sequence, n.confirmed,
                                            now, conn.confirmed_timestamp)
           IN  /\ conn' = [conn EXCEPT !.seq_nr = n.self,
                                       !.state = IF ok THEN "Closed" ELSE @]
               /\ Written(ok, msg)
               /\ c_last' = [Call("drop") EXCEPT
                                !.res = IF ok THEN "Ok" ELSE "panic",
                                !.wrote = IF ok THEN <<msg>> ELSE <<>>]
    /\ cpc' = "dropped"
    /\ cstream' = "closed"
    /\ handshake' = NoHandshake
    /\ UNCHANGED <<inRun, previous_data, runRes, nOps, l2c>>
    /\ UNCHANGED <<listenerVars, lstream, envVars>>

\* RastaConnection::try_new once more: after the connection was dropped and the
\* listener has left the read loop of its stream, the program connects a new
\* RastaConnection to go on calling operations; its stream waits in the
\* listener's backlog
TryNew ==
    /\ cpc = "dropped"
    /\ nOps < MaxOps
    /\ peerKind = "listener"
    /\ lpc = "accept"
    /\ lstream = "closed"
    /\ nStreams < MaxStreams
    /\ conn' = NewConnection
    /\ cpc' = "idle"
    /\ inRun' = FALSE
    /\ previous_data' = <<>>
    /\ runRes' = "none"
    /\ c_last' = Constructed
    /\ handshake' = NoHandshake
    /\ c2l' = <<>>
    /\ l2c' = <<>>
    /\ cstream' = "open"
    /\ lstream' = "pending"
    /\ nStreams' = nStreams + 1
    /\ UNCHANGED <<nOps, listenerVars, now, peerNow, peerKind, sci, codec>>

\* ----------------------------------------------------- RastaListener (lib.rs)

\* what handling one frame does: the listener afterwards, the frames written,
\* how the read loop goes on, and how often on_receive was invoked
Step(l, replies, outcome, cb) ==
    [listener |-> l, replies |-> replies, outcome |-> outcome, cb |-> cb]

Contains(s, x) == \E i \in 1..Len(s) : s[i] = x
\* Vec::remove(position of the first x)
RemoveFirst(s, x) ==
    LET idx == CHOOSE i \in 1..Len(s) : s[i] = x /\ \A j \in 1..(i - 1) : s[j] # x
    IN  SubSeq(s, 1, idx - 1) \o SubSeq(s, idx + 1, Len(s))

\* a sequence-number check that only rejects confirmations from the future
SeqNrInvalid_OnlyGreater(l, msg) ==
    l.seq_nr # None /\ msg.confirmed_sequence_number > l.seq_nr

\* the sequence-number check at the head of the read loop
SeqNrInvalid(l, msg) ==
    l.seq_nr # None /\ msg.confirmed_sequence_number # l.seq_nr

\* the idle check: late says that more than RASTA_TIMEOUT_DURATION has passed
\* since the instant in last_message_timestamp
IdleTimedOut(l, late) ==
    l.last_message_timestamp # None /\ late

\* the reply to an idle peer
IdleDisconnect(l, msg, t, wok, oc) ==
    IF oc /\ SuccOverflows(msg.sequence_number) THEN Step(l, <<>>, "panic", 0)
    ELSE IF ~wok THEN Step(l, <<>>, "IOError", 0)
    ELSE Step(l, <<disconnection_request(msg.sender, msg.receiver,
                                         WrappingSucc(msg.sequence_number),
                                         msg.sequence_number, t, msg.timestamp)>>,
              "break", 0)

HandleConnReq(l, msg, t, wok, oc) ==
    IF oc /\ SuccOverflows(msg.sequence_number) THEN Step(l, <<>>, "panic", 0)
    ELSE IF ~wok THEN Step(l, <<>>, "IOError", 0)
    ELSE Step([l EXCEPT !.seq_nr = WrappingSucc(msg.sequence_number),
                        !.connections = Append(@, msg.sender)],
              <<connection_response(msg.sender, msg.receiver, msg.sequence_number, t,
                                    msg.timestamp, N_SENDMAX)>>,
              "continue", 0)

HandleDiscReq(l, msg) ==
    IF Contains(l.connections, msg.sender)
    THEN Step([l EXCEPT !.connections = RemoveFirst(@, msg.sender)], <<>>, "break", 0)
    ELSE Step(l, <<>>, "continue", 0)

\* a heartbeat branch that replies with the heartbeat's own sequence number
HandleHB_EchoSeq(l, msg, t, wok, oc) ==
    IF ~Contains(l.connections, msg.sender) THEN Step(l, <<>>, "continue", 0)
    ELSE IF oc /\ SuccOverflows(msg.sequence_number) THEN Step(l, <<>>, "panic", 0)
    ELSE LET l2 == [l EXCEPT !.seq_nr = WrappingSucc(msg.sequence_number)]
         IN  IF ~wok THEN Step(l2, <<>>, "IOError", 0)
             ELSE Step(l2, <<heartbeat(msg.sender, msg.receiver, msg.sequence_number,
                                       msg.sequence_number, t, msg.timestamp)>>,
                       "continue", 0)

HandleHB(l, msg, t, wok, oc) ==
    IF ~Contains(l.connections, msg.sender) THEN Step(l, <<>>, "continue", 0)
    ELSE IF oc /\ SuccOverflows(msg.sequence_number) THEN Step(l, <<>>, "panic", 0)
    ELSE LET l2 == [l EXCEPT !.seq_nr = WrappingSucc(msg.sequence_number)]
         IN  IF ~wok THEN Step(l2, <<>>, "IOError", 0)
             ELSE Step(l2, <<heartbeat(msg.sender, msg.receiver, l2.seq_nr,
                                       msg.sequence_number, t, msg.timestamp)>>,
                       "continue", 0)

\* a Data branch that answers with a heartbeat whatever on_receive returns
HandleData_AlwaysHeartbeat(l, msg, t, ret, wok) ==
    IF ~Contains(l.connections, msg.sender) THEN Step(l, <<>>, "continue", 0)
    ELSE IF ~wok THEN Step(l, <<>>, "IOError", 1)
    ELSE Step(l, <<heartbeat(msg.sender, l.id, l.seq_nr, msg.sequence_number, t,
                             msg.timestamp)>>, "continue", 1)

\* ret is what on_receive(msg) returns
HandleData(l, msg, t, ret, wok) ==
    IF ~Contains(l.connections, msg.sender) THEN Step(l, <<>>, "continue", 0)
    ELSE LET response ==
                 IF ret # <<>>
                 THEN data_message(msg.sender, l.id, l.seq_nr, msg.sequence_number, t,
                                   msg.timestamp, ret[1])
                 ELSE heartbeat(msg.sender, l.id, l.seq_nr, msg.sequence_number, t,
                                msg.timestamp)
         IN  IF ~wok THEN Step(l, <<>>, "IOError", 1)
             ELSE Step(l, <<response>>, "continue", 1)

\* one pass of the read loop over a received frame; oc: the build checks for
\* overflow
HandleFrame(l, msg, late, t, ret, wok, oc) ==
    IF SeqNrInvalid(l, msg) THEN Step(l, <<>>, "InvalidSeqNr", 0)
    ELSE IF IdleTimedOut(l, late) THEN IdleDisconnect(l, msg, t, wok, oc)
    ELSE LET l1 == [l EXCEPT !.seq_nr = msg.sequence_number] IN
         CASE msg.message_type = "ConnReq" -> HandleConnReq(l1, msg, t, wok, oc)
           [] msg.message_type = "ConnResp" -> Step(l1, <<>>, "continue", 0)
           [] msg.message_type = "DiscReq" -> HandleDiscReq(l1, msg)
           [] msg.message_type = "HB" -> HandleHB(l1, msg, t, wok, oc)
           [] msg.message_type = "Data" -> HandleData(l1, msg, t, ret, wok)
           [] OTHER -> Step(l1, <<>>, "panic", 0)

\* the read fails (kind "error": read timeout or I/O error) or returns 0 bytes
\* (kind "eof")
HandleReadFailure(l, kind) ==
    IF kind = "eof" THEN Step([l EXCEPT !.seq_nr = None], <<>>, "break", 0)
    ELSE IF l.connections = <<>> THEN Step(l, <<>>, "panic", 0)
    ELSE Step([l EXCEPT !.connections = SubSeq(@, 1, Len(@) - 1), !.seq_nr = None],
              <<>>, "break", 0)

\* where listen goes after a step
AfterStep(outcome) ==
    CASE outcome = "continue" -> "read"
      [] outcome = "break" -> "accept"
      [] outcome = "panic" -> "panicked"
      [] OTHER -> "returned"

LWriteOutcomes == IF cstream = "closed" THEN {TRUE, FALSE} ELSE {TRUE}

\* listener.incoming() yields the connection's stream
ListenerAccept ==
    /\ peerKind = "listener"
    /\ lpc = "accept"
    /\ lstream = "pending"
    /\ lpc' = "read"
    /\ lstream' = "open"
    /\ UNCHANGED <<connVars, listener, listenResult, l_last, c2l, l2c, envVars>>

\* conn.read returns a frame, which the loop body handles
ListenerFrame ==
    /\ peerKind = "listener"
    /\ lpc = "read"
    /\ c2l # <<>>
    /\ \E late \in BOOLEAN, ret \in CallbackReturns, wok \in LWriteOutcomes,
          oc \in SuccPanics(Head(c2l).sequence_number) :
        LET msg == MessageFrom(Head(c2l))
            st == HandleFrame(listener, msg, late, peerNow, ret, wok, oc)
        IN  /\ listener' = st.listener
            /\ l2c' = IF cstream = "closed" THEN l2c ELSE l2c \o st.replies
            /\ c2l' = IF st.outcome = "continue" THEN Tail(c2l) ELSE <<>>
            /\ lpc' = AfterStep(st.outcome)
            /\ lstream' = IF st.outcome = "continue" THEN lstream ELSE "closed"
            /\ listenResult' = IF AfterStep(st.outcome) = "returned" THEN st.outcome
                               ELSE listenResult
            /\ l_last' = [event |-> "frame", msg |-> <<msg>>, late |-> late,
                          known |-> Contains(listener.connections, msg.sender),
                          pre_seq_nr |-> listener.seq_nr,
                          pre_connections |-> listener.connections,
                          replies |-> st.replies, cb |-> st.cb,
                          ret |-> IF st.cb = 0 THEN <<>> ELSE ret,
                          outcome |-> st.outcome]
    /\ UNCHANGED <<connVars, envVars>>

\* conn.read has nothing to return: the read timer expires while the
\* connection is silent; after the connection released its stream the read
\* returns 0 bytes or an I/O error
ListenerReadFails ==
    /\ peerKind = "listener"
    /\ lpc = "read"
    /\ c2l = <<>>
    /\ \E ev \in (IF cstream = "closed" THEN {"read_eof", "read_error"} ELSE {"read_timeout"}) :
        LET st == HandleReadFailure(listener, IF ev = "read_eof" THEN "eof" ELSE "error")
        IN  /\ listener' = st.listener
            /\ lpc' = AfterStep(st.outcome)
            /\ lstream' = "closed"
            /\ l_last' = [event |-> ev, msg |-> <<>>, late |-> FALSE, known |-> FALSE,
                          pre_seq_nr |-> listener.seq_nr,
                          pre_connections |-> listener.connections,
                          replies |-> st.replies, cb |-> st.cb, ret |-> <<>>,
                          outcome |-> st.outcome]
    /\ UNCHANGED <<connVars, listenResult, c2l, l2c, envVars>>

\* ------------------------------------------------ a peer that is not rasta-rs

\* A foreign RaSTA peer, of which only the handshake is modelled.  It answers
\* a ConnReq with a ConnResp carrying the right or another version, with a
\* message that carries the version bytes but is no ConnResp, or with a
\* heartbeat; it reads every other frame without answering.
ForeignReplies(req) ==
    LET sn == WrappingSucc(WrappingSucc(req.sequence_number))
        csn == req.sequence_number
    IN  IF req.message_type # "ConnReq" THEN {}
        ELSE {BuildMessage(CONN_MSG_LEN, "ConnResp", req.sender, ForeignId, sn, csn,
                           peerNow, req.timestamp, ConnData(RASTA_VERSION, N_SENDMAX)),
              BuildMessage(CONN_MSG_LEN, "ConnResp", req.sender, ForeignId, sn, csn,
                           peerNow, req.timestamp, ConnData(OTHER_VERSION, N_SENDMAX)),
              BuildMessage(CONN_MSG_LEN, "ConnReq", req.sender, ForeignId, sn, csn,
                           peerNow, req.timestamp, ConnData(RASTA_VERSION, N_SENDMAX)),
              heartbeat(req.sender, ForeignId, sn, csn, peerNow, req.timestamp)}

\* the foreign peer reads a frame
ForeignReply ==
    /\ peerKind = "foreign"
    /\ lstream = "open"
    /\ c2l # <<>>
    /\ \/ \E f \in ForeignReplies(Head(c2l)) : l2c' = Append(l2c, f)
       \/ Head(c2l).message_type # "ConnReq" /\ l2c' = l2c
    /\ c2l' = Tail(c2l)
    /\ UNCHANGED <<connVars, listenerVars, lstream, envVars>>

\* -------------------------------------------- SCIConnection (sci-rs/lib.rs)

\* a call of send_telegram(t) that has not returned yet
SciCall(t) ==
    [op |-> "send_telegram", telegram |-> <<t>>, res |-> "pending",
     pre_state |-> conn.state, pre_seq_nr |-> conn.seq_nr, pre_mapping |-> sci.mapping,
     wrote |-> <<>>, prev_res |-> sci.last.res]

\* a lookup that falls back to the listener's id for an unknown name
SciLookup_OrDefault(mapping, name) ==
    IF name \in DOMAIN mapping THEN <<mapping[name]>> ELSE <<ListenerId>>

\* sci_name_rasta_id_mapping.get(name): Some(id) or None
SciLookup(mapping, name) ==
    IF name \in DOMAIN mapping THEN <<mapping[name]>> ELSE <<>>

\* what a step of the session's caller leaves alone
SciFrame ==
    UNCHANGED <<previous_data, l2c, listenerVars, cstream, lstream, now, peerNow, peerKind,
                nStreams, codec>>

\* the caller calls send_telegram(t): when the connection is Down, look the
\* receiver up and open the connection (up to the read of the reply);
\* otherwise send the encoded telegram
SciSendTelegram ==
    /\ CanCall
    /\ sci.pending = <<>>
    /\ \E t \in Telegrams :
        IF conn.state = "Down"
        THEN LET receiver == SciLookup(sci.mapping, t.receiver) IN
             IF receiver = <<>>
             THEN /\ sci' = [sci EXCEPT !.last = [SciCall(t) EXCEPT !.res = "MissingRastaId"]]
                  /\ UNCHANGED <<conn, cpc, inRun, runRes, c_last, handshake, c2l>>
             ELSE /\ StartOpen(FALSE, receiver[1])
                  /\ sci' = [sci EXCEPT !.pending = <<t>>,
                                        !.last = [SciCall(t) EXCEPT !.wrote = c_last'.wrote]]
        ELSE /\ DoSendData(FALSE, TelegramBytes(t))
             /\ sci' = [sci EXCEPT !.last = [SciCall(t) EXCEPT !.res = c_last'.res,
                                                               !.wrote = c_last'.wrote]]
    /\ nOps' = nOps + 1
    /\ SciFrame

\* send_telegram after its open_connection returned: the error, or send_data
\* of the encoded telegram
SciSendAfterOpen ==
    /\ cpc = "idle"
    /\ sci.pending # <<>>
    /\ IF c_last.res # "Ok"
       THEN /\ sci' = [sci EXCEPT !.pending = <<>>, !.last.res = c_last.res]
            /\ UNCHANGED <<conn, cpc, inRun, runRes, c_last, handshake, c2l>>
       ELSE /\ DoSendData(FALSE, TelegramBytes(sci.pending[1]))
            /\ sci' = [sci EXCEPT !.pending = <<>>, !.last.res = c_last'.res,
                                  !.last.wrote = @ \o c_last'.wrote]
    /\ UNCHANGED nOps
    /\ SciFrame

\* SciCall for a step of run
SciRunCall(op, t) == [SciCall(t) EXCEPT !.op = op]

\* what a step of run leaves alone
SciRunFrame ==
    UNCHANGED <<l2c, listenerVars, cstream, lstream, now, peerNow, peerKind, nStreams, codec>>

\* the caller calls run(peer, telegram_fn): when the connection is Down, look
\* the peer up and open the connection; then enter the loop
SciRun ==
    /\ CanCall
    /\ sci.pending = <<>>
    /\ \E peer \in RunPeers :
        IF conn.state = "Down"
        THEN LET receiver == SciLookup(sci.mapping, peer) IN
             IF receiver = <<>>
             THEN /\ sci' = [sci EXCEPT !.run_pending = <<>>,
                                        !.last = [SciRunCall("run", <<>>) EXCEPT
                                                     !.telegram = <<>>,
                                                     !.res = "MissingRastaId"]]
                  /\ runRes' = "MissingRastaId"
                  /\ UNCHANGED <<conn, cpc, inRun, c_last, handshake, c2l, previous_data>>
             ELSE /\ StartOpen(TRUE, receiver[1])
                  /\ sci' = [sci EXCEPT !.run_pending = <<>>,
                                        !.last = [SciRunCall("run", <<>>) EXCEPT
                                                     !.telegram = <<>>,
                                                     !.wrote = c_last'.wrote]]
        ELSE /\ cpc' = "run_cb"
             /\ inRun' = TRUE
             /\ runRes' = "running"
             /\ previous_data' = <<>>
             /\ sci' = [sci EXCEPT !.run_pending = <<>>,
                                   !.last = [SciRunCall("run", <<>>) EXCEPT
                                                !.telegram = <<>>, !.res = "Ok"]]
             /\ UNCHANGED <<conn, c_last, handshake, c2l>>
    /\ nOps' = nOps + 1
    /\ SciRunFrame

\* run: telegram_fn(previous_data.take()) returns a command, which run
\* executes up to its first read.  Telegram(t) is send_telegram(t): on a Down
\* connection the lookup of t.receiver and open_connection come first
\* (previous_data is None then: nothing was received on a Down connection)
SciRunCallback ==
    /\ cpc = "run_cb"
    /\ nOps < MaxOps
    /\ sci.run_pending = <<>>
    /\ \/ \E t \in RunTelegrams :
            IF conn.state = "Down"
            THEN LET receiver == SciLookup(sci.mapping, t.receiver) IN
                 IF receiver = <<>>
                 THEN /\ sci' = [sci EXCEPT !.last = [SciRunCall("run_telegram", t) EXCEPT
                                                         !.res = "MissingRastaId"]]
                      /\ RunEnds("MissingRastaId")
                      /\ previous_data' = <<>>
                      /\ UNCHANGED <<conn, c_last, handshake, c2l>>
                 ELSE /\ StartOpen(TRUE, receiver[1])
                      /\ sci' = [sci EXCEPT !.run_pending = <<t>>,
                                            !.last = [SciRunCall("run_telegram", t) EXCEPT
                                                         !.wrote = c_last'.wrote]]
            ELSE /\ DoSendData(TRUE, TelegramBytes(t))
                 /\ previous_data' = <<>>
                 /\ sci' = [sci EXCEPT !.last = [SciRunCall("run_telegram", t) EXCEPT
                                                    !.res = c_last'.res,
                                                    !.wrote = c_last'.wrote]]
       \/ /\ DoSendHeartbeat(TRUE)
          /\ handshake' = NoHandshake
          /\ previous_data' = <<>>
          /\ sci' = [sci EXCEPT !.last = [SciRunCall("run_wait", <<>>) EXCEPT
                                             !.telegram = <<>>, !.res = c_last'.res,
                                             !.wrote = c_last'.wrote]]
       \/ /\ DoClose(TRUE)
          /\ handshake' = NoHandshake
          /\ previous_data' = <<>>
          /\ sci' = [sci EXCEPT !.last = [SciRunCall("run_disconnect", <<>>) EXCEPT
                                             !.telegram = <<>>, !.res = c_last'.res,
                                             !.wrote = c_last'.wrote]]
    /\ nOps' = nOps + 1
    /\ SciRunFrame

\* run, Telegram branch: send_telegram after its open_connection returned Ok
SciRunSendAfterOpen ==
    /\ cpc = "run_cb"
    /\ sci.run_pending # <<>>
    /\ DoSendData(TRUE, TelegramBytes(sci.run_pending[1]))
    /\ sci' = [sci EXCEPT !.run_pending = <<>>, !.last.res = c_last'.res,
                          !.last.wrote = @ \o c_last'.wrote]
    /\ UNCHANGED <<nOps, previous_data>>
    /\ SciRunFrame

\* receive_telegram's result for the message read: the decoded telegram, the
\* SciError turned into RastaError::Other, or the decoder's panic
ReceiveTelegramResult(msg) ==
    LET dec == TelegramFrom(msg.data) IN
    [res |-> IF dec.kind = "Ok" THEN "Ok" ELSE IF dec.kind = "Err" THEN "Other" ELSE "panic",
     telegram |-> dec.telegram]

\* run, Telegram branch: receive_telegram reads one message and decodes its
\* data, whatever the message's type
SciRunTelegramReply ==
    /\ cpc = "run_recv"
    /\ l2c # <<>>
    /\ LET msg == MessageFrom(Head(l2c))
           r == ReceiveTelegramResult(msg)
       IN  /\ l2c' = Tail(l2c)
           /\ c_last' = [Call("receive_message") EXCEPT !.res = "Ok", !.reply = <<msg>>]
           /\ previous_data' = r.telegram
           /\ Returns(TRUE, r.res)
           /\ sci' = [sci EXCEPT !.last = [SciRunCall("receive_telegram", <<>>) EXCEPT
                                              !.telegram = sci.last.telegram,
                                              !.wrote = sci.last.wrote,
                                              !.res = r.res]]
    /\ UNCHANGED <<conn, nOps, handshake, c2l>>
    /\ UNCHANGED <<listenerVars, cstream, lstream, now, peerNow, peerKind, nStreams, codec>>

\* ------------------------------------------------ SCIListener (sci-rs/lib.rs)

\* an on_receive that reports the location opposite to the requested one
scip_receiver_on_receive_Opposite(t) ==
    IF try_as_scip_message_type(t.message_type) = "UnknownMessageType"
    THEN [panic |-> TRUE, ret |-> <<>>]
    ELSE IF t.message_type # scip_change_location THEN [panic |-> FALSE, ret |-> <<>>]
    ELSE IF t.payload.data[1] = PointLocationChangeToRight
    THEN [panic |-> FALSE, ret |-> <<location_status(NameS, NameC, PointLocationLeft)>>]
    ELSE IF t.payload.data[1] = PointLocationChangeToLeft
    THEN [panic |-> FALSE, ret |-> <<location_status(NameS, NameC, PointLocationRight)>>]
    ELSE [panic |-> TRUE, ret |-> <<>>]

\* the on_receive closure of examples/scip_receiver.rs: Some(telegram), None,
\* or a panic of one of its unwraps
scip_receiver_on_receive(t) ==
    IF try_as_scip_message_type(t.message_type) = "UnknownMessageType"
    THEN [panic |-> TRUE, ret |-> <<>>]
    ELSE IF t.message_type # scip_change_location THEN [panic |-> FALSE, ret |-> <<>>]
    ELSE IF t.payload.data[1] = PointLocationChangeToRight
    THEN [panic |-> FALSE, ret |-> <<location_status(NameS, NameC, PointLocationRight)>>]
    ELSE IF t.payload.data[1] = PointLocationChangeToLeft
    THEN [panic |-> FALSE, ret |-> <<location_status(NameS, NameC, PointLocationLeft)>>]
    ELSE [panic |-> TRUE, ret |-> <<>>]

\* the closure SCIListener::listen hands to RastaListener::listen: the data
\* is decoded (unwrap), on_receive is called, its telegram is encoded
SCIListener_on_receive(data) ==
    LET dec == TelegramFrom(data) IN
    IF dec.kind # "Ok" THEN [panic |-> TRUE, ret |-> <<>>, arg |-> <<>>]
    ELSE LET r == scip_receiver_on_receive(dec.telegram[1]) IN
         [panic |-> r.panic, arg |-> dec.telegram,
          ret |-> IF r.ret = <<>> THEN <<>> ELSE <<TelegramBytes(r.ret[1])>>]

\* conn.read of the listener behind an SCIListener returns a frame
SciListenerFrame ==
    /\ peerKind = "listener"
    /\ lpc = "read"
    /\ c2l # <<>>
    /\ \E late \in BOOLEAN, wok \in LWriteOutcomes,
          oc \in SuccPanics(Head(c2l).sequence_number) :
        LET msg == MessageFrom(Head(c2l))
            cb == SCIListener_on_receive(msg.data)
            st0 == HandleFrame(listener, msg, late, peerNow, cb.ret, wok, oc)
            st == IF st0.cb = 1 /\ cb.panic
                  THEN Step(st0.listener, <<>>, "panic", 1) ELSE st0
        IN  /\ listener' = st.listener
            /\ l2c' = IF cstream = "closed" THEN l2c ELSE l2c \o st.replies
            /\ c2l' = IF st.outcome = "continue" THEN Tail(c2l) ELSE <<>>
            /\ lpc' = AfterStep(st.outcome)
            /\ lstream' = IF st.outcome = "continue" THEN lstream ELSE "closed"
            /\ listenResult' = IF AfterStep(st.outcome) = "returned" THEN st.outcome
                               ELSE listenResult
            /\ l_last' = [event |-> "frame", msg |-> <<msg>>, late |-> late,
                          known |-> Contains(listener.connections, msg.sender),
                          pre_seq_nr |-> listener.seq_nr,
                          pre_connections |-> listener.connections,
                          replies |-> st.replies, cb |-> st.cb,
                          ret |-> IF st.cb = 0 THEN <<>> ELSE cb.ret,
                          outcome |-> st.outcome]
    /\ UNCHANGED <<connVars, envVars>>

\* ------------------------------------------------- the codec of message.rs

\* what a step of the codec leaves alone
CodecFrame == UNCHANGED <<connVars, listenerVars, c2l, l2c, lstream, now, peerNow, peerKind,
                          nStreams, sci>>

\* a constructor is called with the arguments args in a build with byte
\* order endian and overflow checks oc
MessageInit ==
    /\ InitEndpoints
    /\ peerKind = "listener"
    /\ \E m \in ConstructedMessages, e \in Endians, oc \in BOOLEAN :
        codec = [step |-> "constructed", args |-> m, endian |-> e, oc |-> oc,
                 msg |-> MessageBuilt(m, e), written |-> <<>>, read |-> <<>>,
                 foreign |-> FALSE, decoded |-> <<>>]

\* stream.write(&msg)
MessageWrite ==
    /\ codec.step = "constructed"
    /\ codec' = [codec EXCEPT !.step = "written", !.written = MessageDeref(codec.msg)]
    /\ CodecFrame

\* stream.read(&mut buf) returns the first n bytes written
MessageRead ==
    /\ codec.step = "written"
    /\ \E n \in ReadLengths :
        codec' = [codec EXCEPT !.step = "read", !.read = SubSeq(codec.written, 1, n)]
    /\ CodecFrame

\* stream.read(&mut buf) returns a frame of a peer that is not rasta-rs: the
\* bytes written, with a message-type code that names no type
MessageReadForeign ==
    /\ codec.step = "written"
    /\ codec' = [codec EXCEPT
                    !.step = "read", !.foreign = TRUE,
                    !.read = copy_from_slice(codec.written, 3,
                                             to_ne_bytes(OtherTypeCode, 2, codec.endian))]
    /\ CodecFrame

\* the received bytes are decoded
MessageDecode ==
    /\ codec.step = "read"
    /\ codec' = [codec EXCEPT !.step = "decoded",
                              !.decoded = <<ListenDecode(codec.read, codec.endian, codec.oc)>>]
    /\ CodecFrame

MessageNext == MessageWrite \/ MessageRead \/ MessageReadForeign \/ MessageDecode

MessageSpec == MessageInit /\ [][MessageNext]_vars

\* ------------------------------------------- the codec of sci-rs/src/lib.rs

\* a telegram is constructed
TelegramInit ==
    /\ InitEndpoints
    /\ peerKind = "listener"
    /\ \E t \in CodecTelegrams :
        codec = [step |-> "constructed", telegram |-> t, bytes |-> <<>>, decoded |-> <<>>]

\* Vec::<u8>::from(telegram)
TelegramEncode ==
    /\ codec.step = "constructed"
    /\ codec' = [codec EXCEPT !.step = "encoded", !.bytes = TelegramBytes(codec.telegram)]
    /\ CodecFrame

\* SCITelegram::try_from(bytes)
TelegramDecode ==
    /\ codec.step = "encoded"
    /\ codec' = [codec EXCEPT !.step = "decoded", !.decoded = <<TelegramFrom(codec.bytes)>>]
    /\ CodecFrame

TelegramNext == TelegramEncode \/ TelegramDecode

TelegramSpec == TelegramInit /\ [][TelegramNext]_vars

\* ------------------------------------------------------- to_bcd (scitds.rs)

\* to_bcd is about to be called with four bytes
BcdInit ==
    /\ InitEndpoints
    /\ peerKind = "listener"
    /\ \E d \in [1..4 -> BcdDigits] : codec = [step |-> "input", digits |-> d, result |-> <<>>]

BcdCall ==
    /\ codec.step = "input"
    /\ codec' = [codec EXCEPT !.step = "returned", !.result = to_bcd(codec.digits)]
    /\ CodecFrame

BcdSpec == BcdInit /\ [][BcdCall]_vars

\* ------------------------------------------- the signal aspect (scils.rs)

\* a signal aspect is constructed (SCILSSignalAspect::new)
AspectInit ==
    /\ InitEndpoints
    /\ peerKind = "listener"
    /\ \E a \in SignalAspects :
        codec = [step |-> "constructed", aspect |-> a, payload |-> <<>>, slice |-> "none",
                 decoded |-> <<>>]

\* SCIPayload::from(aspect)
AspectEncode ==
    /\ codec.step = "constructed"
    /\ codec' = [codec EXCEPT !.step = "encoded",
                              !.payload = <<SignalAspectPayload(codec.aspect)>>]
    /\ CodecFrame

\* SCILSSignalAspect::try_from(slice), the slice being the payload's whole
\* data or its used part
AspectDecode ==
    /\ codec.step = "encoded"
    /\ \E sl \in {"data", "used"} :
        LET pl == codec.payload[1]
            value == IF sl = "data" THEN pl.data ELSE SubSeq(pl.data, 1, pl.used)
        IN  codec' = [codec EXCEPT !.step = "decoded", !.slice = sl,
                                   !.decoded = <<SignalAspect_try_from(value)>>]
    /\ CodecFrame

AspectSpec == AspectInit /\ [][AspectEncode \/ AspectDecode]_vars

\* -------------------------------------- the occupancy status (scitds.rs)

\* tvps_occupancy_status is about to be called
OccupancyInit ==
    /\ InitEndpoints
    /\ peerKind = "listener"
    /\ \E a \in OccupancyArguments :
        codec = [step |-> "arguments", args |-> a, telegram |-> <<>>, parsed |-> <<>>,
                 back |-> <<>>]

\* SCITelegram::tvps_occupancy_status("C", "S", ...)
OccupancyBuild ==
    /\ codec.step = "arguments"
    /\ LET a == codec.args IN
       codec' = [codec EXCEPT
                    !.step = "built",
                    !.telegram = <<tvps_occupancy_status(
                                       NameC, NameS, a.occupancy_status,
                                       a.can_be_forced_to_clear, a.filling_level,
                                       a.pom_status, a.disturbance_status,
                                       a.change_trigger)>>]
    /\ CodecFrame

\* OccupancyStatusPayload::try_from(telegram.payload)
OccupancyParse ==
    /\ codec.step = "built"
    /\ codec' = [codec EXCEPT
                    !.step = "parsed",
                    !.parsed = <<OccupancyStatusPayload_try_from(codec.telegram[1].payload)>>]
    /\ CodecFrame

\* SCIPayload::from(parsed)
OccupancyConvert ==
    /\ codec.step = "parsed"
    /\ codec.parsed[1].kind = "Ok"
    /\ codec' = [codec EXCEPT
                    !.step = "converted",
                    !.back = <<OccupancyStatusPayload_into(codec.parsed[1].value[1])>>]
    /\ CodecFrame

OccupancySpec ==
    OccupancyInit /\ [][OccupancyBuild \/ OccupancyParse \/ OccupancyConvert]_vars

\* ---------------------------------------------------------- specification
Next ==
    \/ OpenConnection
    \/ OpenConnectionReply
    \/ SendData
    \/ SendHeartbeat
    \/ HeartbeatReply
    \/ ReceiveMessage
    \/ CloseConnection
    \/ Run
    \/ RunCallback
    \/ RunDataReply
    \/ ReadFails
    \/ Drop
    \/ TryNew
    \/ ListenerAccept
    \/ ListenerFrame
    \/ ListenerReadFails
    \/ ForeignReply

Spec == Init /\ [][Next]_vars

\* an SCI session (SCIConnection) whose peer is a RastaListener
SciInit == Init /\ peerKind = "listener"

SciNext ==
    \/ SciSendTelegram
    \/ SciSendAfterOpen
    \/ OpenConnectionReply
    \/ ReadFails
    \/ ListenerAccept
    \/ ListenerFrame
    \/ ListenerReadFails

SciSpec == SciInit /\ [][SciNext]_vars

\* an SCI session driven by send_telegram and run; its peer is the
\* SCIListener of examples/scip_receiver.rs or a foreign RaSTA peer
SciRunNext ==
    \/ SciSendTelegram
    \/ SciSendAfterOpen
    \/ SciRun
    \/ SciRunCallback
    \/ SciRunSendAfterOpen
    \/ SciRunTelegramReply
    \/ OpenConnectionReply
    \/ HeartbeatReply
    \/ ReadFails
    \/ ListenerAccept
    \/ SciListenerFrame
    \/ ListenerReadFails
    \/ ForeignReply

SciRunSpec == Init /\ [][SciRunNext]_vars

\* a session in which the caller only calls run, against a RastaListener, and
\* releases the connection after run returned; every read of the connection
\* gets its frame (no read of the connection times out)
RunNext ==
    \/ Run
    \/ OpenConnectionReply
    \/ RunCallback
    \/ RunDataReply
    \/ HeartbeatReply
    \/ Drop
    \/ ListenerAccept
    \/ ListenerFrame
    \/ ListenerReadFails

\* (SciInit: the initial state with a RastaListener as the peer)
RunSpec == SciInit /\ [][RunNext]_vars

TypeOK ==
    /\ conn.state \in ConnectionStates
    /\ conn.seq_nr \in {None} \cup 0..SeqMax
    /\ cpc \in {"idle", "open_recv", "hb_recv", "run_recv", "run_cb", "panicked", "dropped"}
    /\ lpc \in {"accept", "read", "returned", "panicked"}
    /\ listener.seq_nr \in {None} \cup 0..SeqMax
    /\ nOps \in 0..MaxOps
    /\ nStreams \in 1..MaxStreams

\* ------------------------------------------------------------------ claims

\* the frame the last operation of the connection read, and the one it wrote
LastReply == c_last.reply[1]
LastWritten == c_last.wrote[1]
\* the frame the listener's last step handled
LastFrame == l_last.msg[1]
HasVersion(m, v) == Len(m.data) >= 4 /\ SubSeq(m.data, 1, 4) = v

\* C1: once the connection state has been Closed it is never Up in a later
\* state, whatever public operations are called.
C1_ClosedNeverUp == [][conn.state = "Closed" => conn'.state # "Up"]_vars

\* C2: a frame whose confirmed_sequence_number differs from the listener's
\* established last sequence number makes listen fail with InvalidSeqNr; for
\* that frame no reply is written, the callback is not invoked, and the last
\* sequence number and the peer set stay as they were.
C2_InvalidSeqNrRejected ==
    (/\ l_last.event = "frame"
     /\ l_last.pre_seq_nr # None
     /\ LastFrame.confirmed_sequence_number # l_last.pre_seq_nr)
    => /\ lpc = "returned"
       /\ listenResult = "InvalidSeqNr"
       /\ l_last.replies = <<>>
       /\ l_last.cb = 0
       /\ listener.seq_nr = l_last.pre_seq_nr
       /\ listener.connections = l_last.pre_connections

C2_Witness ==
    /\ l_last.event = "frame"
    /\ l_last.pre_seq_nr # None
    /\ LastFrame.confirmed_sequence_number # l_last.pre_seq_nr
    /\ listenResult = "InvalidSeqNr"

\* C3: after open_connection succeeded with a ConnResp and N calls of
\* send_data returned Ok since (no heartbeat or close in between), seq_nr is
\* the ConnResp's sequence_number plus N, in the arithmetic of the counter.
C3_SeqNrAfterDataSends ==
    handshake.base # None
    => conn.seq_nr = (handshake.base + handshake.n) % SeqModulus

C3_Witness ==
    /\ handshake.base # None
    /\ handshake.n = 2
    /\ conn.seq_nr = (handshake.base + 2) % SeqModulus

\* send_heartbeat returned Ok on an Up connection whose peer is a
\* RastaListener, and the frame it read is the listener's heartbeat reply to
\* the heartbeat it wrote
HeartbeatAnswered ==
    /\ peerKind = "listener"
    /\ c_last.op = "send_heartbeat"
    /\ c_last.res = "Ok"
    /\ c_last.pre_state = "Up"
    /\ LastReply.message_type = "HB"
    /\ LastReply.confirmed_sequence_number = LastWritten.sequence_number

\* C4 as stated: after a heartbeat answered by a RastaListener that knows the
\* sender, seq_nr is exactly 1 greater than before the call.
C4_HeartbeatAdvancesByOne ==
    HeartbeatAnswered => conn.seq_nr = WrappingSucc(c_last.pre_seq_nr)

\* C4, amended: a RastaListener that knows the sender and accepts a heartbeat
\* replies with one heartbeat whose sequence_number is the heartbeat's plus 1;
\* when send_heartbeat on an Up connection reads that reply, seq_nr is on
\* return exactly 2 greater than before the call.
C4_HeartbeatAdvancesByTwo ==
    /\ (/\ l_last.event = "frame"
        /\ LastFrame.message_type = "HB"
        /\ l_last.known
        /\ l_last.outcome = "continue")
       => /\ Len(l_last.replies) = 1
          /\ l_last.replies[1].message_type = "HB"
          /\ l_last.replies[1].sequence_number = WrappingSucc(LastFrame.sequence_number)
          /\ l_last.replies[1].confirmed_sequence_number = LastFrame.sequence_number
    /\ HeartbeatAnswered
       => conn.seq_nr = WrappingSucc(WrappingSucc(c_last.pre_seq_nr))

C4_Witness ==
    /\ HeartbeatAnswered
    /\ cpc = "idle"
    /\ conn.seq_nr = WrappingSucc(WrappingSucc(c_last.pre_seq_nr))

\* C5: a frame received more than the RaSTA timeout after the previous
\* message on the stream is answered with a DiscReq with sequence_number =
\* frame.sequence_number + 1; the loop stops and the frame is not dispatched.
C5_IdleFrameDisconnects ==
    (/\ l_last.event = "frame"
     /\ l_last.late
     /\ l_last.pre_seq_nr # None
     /\ LastFrame.confirmed_sequence_number = l_last.pre_seq_nr
     /\ l_last.outcome # "panic")
    => /\ Len(l_last.replies) = 1
       /\ l_last.replies[1].message_type = "DiscReq"
       /\ l_last.replies[1].sequence_number = WrappingSucc(LastFrame.sequence_number)
       /\ l_last.outcome = "break"
       /\ l_last.cb = 0

\* C6: when a read of the accepted stream exceeds the read timeout, the
\* listener sends a DiscReq on that stream and leaves the read loop.
C6_ReadTimeoutSendsDiscReq ==
    (l_last.event = "read_timeout" /\ l_last.pre_connections # <<>>)
    => /\ Len(l_last.replies) = 1
       /\ l_last.replies[1].message_type = "DiscReq"
       /\ l_last.outcome = "break"

\* C7: an operation of the connection that reads a reply whose
\* confirmed_sequence_number is not the sequence number of the message the
\* operation sent fails with InvalidSeqNr.
C7_MismatchRejected ==
    (/\ c_last.op \in {"open_connection", "send_heartbeat"}
     /\ c_last.wrote # <<>>
     /\ c_last.reply # <<>>
     /\ c_last.res # "panic"
     /\ LastReply.confirmed_sequence_number # LastWritten.sequence_number)
    => c_last.res = "InvalidSeqNr"

\* open_connection on a Down connection read a ConnResp
OpenedFromDown ==
    /\ c_last.op = "open_connection"
    /\ c_last.pre_state = "Down"
    /\ c_last.reply # <<>>
    /\ LastReply.message_type = "ConnResp"

\* C8: open_connection on a Down connection that reads a ConnResp with the
\* version "0301" leaves the state Up, peer = reply.sender, seq_nr =
\* reply.sequence_number and confirmed_timestamp = reply.timestamp.
C8_OpenAdoptsConnResp ==
    (OpenedFromDown /\ HasVersion(LastReply, RASTA_VERSION))
    => /\ c_last.res = "Ok"
       /\ conn.state = "Up"
       /\ conn.peer = LastReply.sender
       /\ conn.seq_nr = LastReply.sequence_number
       /\ conn.confirmed_timestamp = LastReply.timestamp

C8_Witness ==
    /\ OpenedFromDown
    /\ HasVersion(LastReply, RASTA_VERSION)
    /\ conn.state = "Up"
    /\ LastReply.sender # ListenerId
    /\ LastReply.timestamp # LastReply.confirmed_timestamp

\* C9: open_connection that reads a ConnResp whose first four data bytes are
\* not "0301" fails with VersionMismatch; the state stays Down and peer,
\* seq_nr and confirmed_timestamp stay as they were.
C9_VersionMismatch ==
    (/\ c_last.op = "open_connection"
     /\ c_last.reply # <<>>
     /\ LastReply.message_type = "ConnResp"
     /\ Len(LastReply.data) >= 4
     /\ ~HasVersion(LastReply, RASTA_VERSION))
    => /\ c_last.res = "VersionMismatch"
       /\ conn.state = c_last.pre_state
       /\ conn.peer = c_last.pre_peer
       /\ conn.seq_nr = c_last.pre_seq_nr
       /\ conn.confirmed_timestamp = c_last.pre_cts

C9_Witness ==
    /\ OpenedFromDown
    /\ HasVersion(LastReply, OTHER_VERSION)
    /\ c_last.res = "VersionMismatch"
    /\ conn.state = "Down"

\* C10: close_connection that returns Ok on an Up connection has written
\* exactly one DiscReq and left the state Closed; on a Down or Closed
\* connection it writes nothing and changes no field; so two consecutive
\* calls write exactly one DiscReq in total.
C10_CloseWritesOneDiscReq ==
    (c_last.op = "close_connection" /\ c_last.res = "Ok")
    => /\ c_last.pre_state = "Up"
          => /\ Len(c_last.wrote) = 1
             /\ LastWritten.message_type = "DiscReq"
             /\ conn.state = "Closed"
       /\ c_last.pre_state # "Up"
          => /\ c_last.wrote = <<>>
             /\ conn.state = c_last.pre_state
             /\ conn.seq_nr = c_last.pre_seq_nr
             /\ conn.peer = c_last.pre_peer
             /\ conn.confirmed_timestamp = c_last.pre_cts
       /\ (c_last.prev.op = "close_connection" /\ c_last.prev.res = "Ok"
           /\ c_last.prev.pre_state = "Up")
          => c_last.prev.nwrote + Len(c_last.wrote) = 1

C10_Witness ==
    /\ c_last.op = "close_connection"
    /\ c_last.res = "Ok"
    /\ c_last.pre_state = "Closed"
    /\ c_last.prev.op = "close_connection"
    /\ c_last.prev.res = "Ok"
    /\ c_last.prev.pre_state = "Up"
    /\ c_last.prev.nwrote = 1

\* the connection was destroyed in state Up with a sequence number that can be
\* advanced in every build
DroppedUp ==
    /\ c_last.op = "drop"
    /\ c_last.pre_state = "Up"
    /\ ~SuccOverflows(c_last.pre_seq_nr)

\* C11: a connection destroyed in state Up has written one DiscReq, as the
\* last frame on its stream, before the stream is released (whenever the
\* write itself succeeds, which it does while the peer's end is open); a
\* connection destroyed in state Down or Closed writes nothing.
C11_DropWritesDiscReq ==
    /\ c_last.op = "drop" => cstream = "closed"
    /\ (DroppedUp /\ (lstream # "closed" \/ c_last.res = "Ok"))
       => /\ c_last.res = "Ok"
          /\ Len(c_last.wrote) = 1
          /\ LastWritten.message_type = "DiscReq"
          /\ LastWritten.sender = ClientId
    /\ (c_last.op = "drop" /\ c_last.pre_state # "Up")
       => /\ c_last.wrote = <<>>
          /\ c_last.res = "Ok"
          /\ conn.state = c_last.pre_state

\* run returned an error, the connection was still Up and its destruction
\* wrote the DiscReq
C11_Witness ==
    /\ DroppedUp
    /\ runRes \in {"Timeout", "IOError"}
    /\ Len(c_last.wrote) = 1
    /\ LastWritten.message_type = "DiscReq"
    /\ c2l # <<>>
    /\ c2l[Len(c2l)] = LastWritten

\* C12: when the write of the DiscReq fails while an Up connection is being
\* destroyed, destruction completes without a panic.
C12_DropWriteFailureNotFatal ==
    (DroppedUp /\ c_last.wrote = <<>>) => c_last.res # "panic"

\* the listener's last step handled a ConnReq and went on reading
ConnReqHandled ==
    /\ l_last.event = "frame"
    /\ LastFrame.message_type = "ConnReq"
    /\ l_last.outcome = "continue"

\* what the ConnReq branch does besides choosing the reply's sequence number
ConnReqRecorded ==
    /\ Len(l_last.replies) = 1
    /\ l_last.replies[1].message_type = "ConnResp"
    /\ l_last.replies[1].receiver = LastFrame.sender
    /\ listener.connections = Append(l_last.pre_connections, LastFrame.sender)
    /\ listener.seq_nr = WrappingSucc(LastFrame.sequence_number)

\* C13 as stated: on a ConnReq m the listener replies with a ConnResp whose
\* sequence_number equals m.sequence_number, adds m.sender to the peer set and
\* sets its last sequence number to m.sequence_number + 1.
C13_ConnRespRepeatsSeq ==
    ConnReqHandled
    => /\ ConnReqRecorded
       /\ l_last.replies[1].sequence_number = LastFrame.sequence_number

\* C13, amended: on a ConnReq m the listener replies with a ConnResp whose
\* confirmed_sequence_number equals m.sequence_number and whose
\* sequence_number is m.sequence_number + 1, adds m.sender to the peer set and
\* sets its last sequence number to m.sequence_number + 1.
C13_ConnRespConfirmsSeq ==
    ConnReqHandled
    => /\ ConnReqRecorded
       /\ l_last.replies[1].confirmed_sequence_number = LastFrame.sequence_number
       /\ l_last.replies[1].sequence_number = WrappingSucc(LastFrame.sequence_number)
       /\ l_last.replies[1].sequence_number = listener.seq_nr

C13_Witness ==
    /\ ConnReqHandled
    /\ l_last.replies[1].message_type = "ConnResp"
    /\ l_last.replies[1].sequence_number = WrappingSucc(LastFrame.sequence_number)
    /\ Contains(listener.connections, LastFrame.sender)

\* the listener's last step handled a Data frame that passed the
\* sequence-number check
DataValidated ==
    /\ l_last.event = "frame"
    /\ LastFrame.message_type = "Data"
    /\ l_last.outcome # "InvalidSeqNr"

\* C14: for a Data frame that passes validation, if the sender is in the peer
\* set the callback is invoked exactly once and exactly one reply is written
\* (unless the write itself fails): a Data message carrying the returned bytes
\* when the callback returned Some(bytes), a heartbeat when it returned None;
\* if the sender is not in the peer set the callback is not invoked and
\* nothing is written.
C14_DataDispatch ==
    DataValidated
    => /\ l_last.known
          => /\ l_last.cb = 1
             /\ l_last.outcome \in {"continue", "IOError"}
             /\ l_last.outcome = "IOError" => l_last.replies = <<>> /\ cstream = "closed"
             /\ l_last.outcome = "continue"
                => /\ Len(l_last.replies) = 1
                   /\ l_last.replies[1].receiver = LastFrame.sender
                   /\ l_last.replies[1].confirmed_sequence_number = LastFrame.sequence_number
                   /\ IF l_last.ret # <<>>
                      THEN /\ l_last.replies[1].message_type = "Data"
                           /\ MessageFrom(l_last.replies[1]).data = l_last.ret[1]
                      ELSE /\ l_last.replies[1].message_type = "HB"
                           /\ MessageFrom(l_last.replies[1]).data = <<>>
       /\ ~l_last.known
          => /\ l_last.cb = 0
             /\ l_last.replies = <<>>
             /\ l_last.outcome = "continue"

\* the callback returned Some(bytes) for a Data frame of a known sender
C14_Witness ==
    /\ DataValidated
    /\ l_last.known
    /\ l_last.cb = 1
    /\ l_last.ret # <<>>
    /\ Len(l_last.replies) = 1
    /\ l_last.replies[1].message_type = "Data"
    /\ l_last.replies[1].data = l_last.ret[1]
    /\ l2c # <<>>
    /\ l2c[Len(l2c)] = l_last.replies[1]

\* a Data frame of a sender that is not in the peer set
C14_UnknownSenderReached ==
    DataValidated /\ ~l_last.known /\ l_last.cb = 0

\* the listener's last step handled a DiscReq that passed the sequence-number
\* check
DiscReqHandled ==
    /\ l_last.event = "frame"
    /\ LastFrame.message_type = "DiscReq"
    /\ l_last.outcome # "InvalidSeqNr"

\* C15: after the listener has processed a DiscReq from sender p, p is not a
\* member of the peer set and the listener reads no further frame from that
\* stream.
C15_DiscReqRemovesPeer ==
    DiscReqHandled
    => /\ ~Contains(listener.connections, LastFrame.sender)
       /\ l_last.outcome = "break"

\* on the first stream, whose peer is in the peer set, the listener's read
\* returned zero bytes or failed with an I/O error (the read timer included)
ReadEndedSession ==
    /\ l_last.event \in {"read_eof", "read_error", "read_timeout"}
    /\ nStreams = 1
    /\ Contains(l_last.pre_connections, ClientId)

\* C16: when a read on the accepted stream returns zero bytes or fails with
\* an I/O error, the listener leaves the read loop of that stream and the peer
\* that had connected on it is no longer in the connected set.
C16_ReadFailurePopsPeer ==
    ReadEndedSession
    => /\ l_last.outcome = "break"
       /\ ~Contains(listener.connections, ClientId)

\* run is about to invoke the callback after a Data command whose one read
\* returned a Data message
DataReplyCaptured ==
    /\ c_last.op = "receive_message"
    /\ c_last.res = "Ok"
    /\ c_last.prev.op = "send_data"
    /\ LastReply.message_type = "Data"

\* C17: in run, the callback's argument (previous_data at the call) is Some(p)
\* exactly when the preceding iteration's command was Data and the one message
\* read after sending it was a Data message with payload p; it is None on the
\* first iteration, after a Wait and after a Data command whose reply was no
\* Data message.  The payload is taken by the call, so it is passed once.
C17_CallbackArgument ==
    /\ cpc = "run_cb"
       => /\ c_last.op \in {"open_connection", "send_heartbeat", "receive_message"}
          /\ c_last.op = "receive_message" => c_last.prev.op = "send_data"
          /\ previous_data = IF DataReplyCaptured THEN <<LastReply.data>> ELSE <<>>
    /\ previous_data # <<>> => cpc = "run_cb"

C17_Witness ==
    /\ cpc = "run_cb"
    /\ DataReplyCaptured
    /\ previous_data = <<LastReply.data>>
    /\ LastReply.data # <<>>

\* the reply to a Data command was a heartbeat: the next callback gets None
C17_NoneAfterHeartbeatReply ==
    /\ cpc = "run_cb"
    /\ c_last.op = "receive_message"
    /\ LastReply.message_type = "HB"
    /\ previous_data = <<>>

RunErrors == {"Timeout", "IOError", "VersionMismatch"}

\* run has just returned Ok: its last operation is the close_connection of
\* the Disconnect branch, which wrote the DiscReq
RunReturnedOk ==
    /\ runRes = "Ok"
    /\ c_last.op = "close_connection"
    /\ c_last.res = "Ok"
    /\ conn.state = "Closed"
    /\ Len(c_last.wrote) = 1
    /\ LastWritten.message_type = "DiscReq"
    /\ cpc = "idle"
    /\ ~inRun

\* run has just returned the error of its last operation
RunReturnedErr ==
    /\ runRes \in RunErrors
    /\ c_last.res = runRes
    /\ cpc = "idle"
    /\ ~inRun

\* run was ended by a panic of its last operation
RunPanicked ==
    /\ runRes = "panic"
    /\ c_last.res = "panic"
    /\ cpc = "panicked"

C18_ErrReached ==
    /\ peerKind = "listener"
    /\ RunReturnedErr
    /\ runRes = "Timeout"
    /\ conn.state = "Up"

\* the telegram of the session's last send_telegram, and the receiver-name
\* field (bytes 23..43) of an encoded telegram
LastTelegram == sci.last.telegram[1]
ReceiverField(bytes) == SubSeq(bytes, 4 + SCI_NAME_LEN, 3 + 2 * SCI_NAME_LEN)

\* send_telegram was called on a Down connection with a receiver name that is
\* no key of the mapping
UnmappedOnDown ==
    /\ sci.last.op = "send_telegram"
    /\ sci.last.pre_state = "Down"
    /\ LastTelegram.receiver \notin DOMAIN sci.last.pre_mapping

\* send_telegram with a mapped receiver name returned Ok after the call before
\* it had failed with the missing-RaSTA-id error
MappedAfterMissing ==
    /\ sci.last.op = "send_telegram"
    /\ sci.last.prev_res = "MissingRastaId"
    /\ LastTelegram.receiver \in DOMAIN sci.mapping
    /\ sci.last.res = "Ok"

\* C19: on a session whose connection is Down, send_telegram(t) with a
\* receiver name that is no key of the mapping fails with the missing-RaSTA-id
\* error, writes no frame and leaves the connection state, seq_nr and the
\* mapping as they were; a later send_telegram with a mapped receiver name
\* opens the connection and sends the telegram.
C19_MissingRastaId ==
    /\ UnmappedOnDown
       => /\ sci.last.res = "MissingRastaId"
          /\ sci.last.wrote = <<>>
          /\ sci.pending = <<>>
          /\ conn.state = "Down"
          /\ conn.seq_nr = sci.last.pre_seq_nr
          /\ sci.mapping = sci.last.pre_mapping
    /\ MappedAfterMissing
       => /\ sci.last.pre_state = "Down"
          /\ Len(sci.last.wrote) = 2
          /\ sci.last.wrote[1].message_type = "ConnReq"
          /\ sci.last.wrote[1].receiver = sci.mapping[LastTelegram.receiver]
          /\ sci.last.wrote[2].message_type = "Data"
          /\ sci.last.wrote[2].data = TelegramBytes(LastTelegram)
          /\ conn.state = "Up"

C19_Witness ==
    /\ MappedAfterMissing
    /\ Len(sci.last.wrote) = 2
    /\ sci.last.wrote[2].message_type = "Data"
    /\ conn.state = "Up"

\* C20: every telegram that the session writes to its RaSTA connection has a
\* receiver name that is a key of the session's name mapping.
C20_WrittenReceiverMapped ==
    \A i \in 1..Len(sci.last.wrote) :
        sci.last.wrote[i].message_type = "Data"
        => /\ LastTelegram.receiver \in DOMAIN sci.mapping
           /\ \E n \in DOMAIN sci.mapping :
                  ReceiverField(sci.last.wrote[i].data) = str_to_sci_name(n)

\* a step of SCIConnection::run that executes the command Telegram(t), and
\* one that reads the reply to it
SciRunTelegramStep ==
    cpc = "run_cb" /\ sci.run_pending = <<>> /\ nOps' = nOps + 1 /\ sci'.last.op = "run_telegram"
SciRunReplyStep == cpc = "run_recv" /\ l2c # <<>> /\ l2c' = Tail(l2c)

\* C21: SCIConnection::run drives the loop of RastaConnection::run, with
\* Telegram(t) for Data(encode(t)): executing Telegram(t) is send_data of the
\* encoded telegram, and reading the reply continues the loop, handing the
\* next callback the decoded data of a Data reply and none for any other
\* reply (a heartbeat from a listener whose callback returned None)
C21_SciRunMirrorsRastaRun ==
    [][/\ SciRunTelegramStep =>
            /\ c_last'.op = "send_data"
            /\ c_last'.wrote # <<>> => c_last'.wrote[1].data = TelegramBytes(sci'.last.telegram[1])
       /\ SciRunReplyStep =>
            LET captured == RunCapture(MessageFrom(Head(l2c))) IN
            /\ cpc' = "run_cb"
            /\ runRes' = "running"
            /\ previous_data' = IF captured = <<>> THEN <<>>
                                ELSE TelegramFrom(captured[1]).telegram]_vars

\* the reply to a Telegram was a heartbeat and run panicked decoding it
C21_HeartbeatReplyPanics ==
    /\ cpc = "panicked"
    /\ sci.last.op = "receive_telegram"
    /\ c_last.reply # <<>>
    /\ c_last.reply[1].message_type = "HB"
    /\ l_last.cb = 1
    /\ l_last.ret = <<>>


\* the first telegram of examples/scip_sender.rs and the answer of
\* examples/scip_receiver.rs to it
FirstChange == change_location(NameC, NameS, PointLocationChangeToLeft)
FirstStatus == location_status(NameS, NameC, PointLocationLeft)

\* run("S", f) was the session's first call, it opened the connection to the
\* listener, f returned Telegram(FirstChange) and run read the reply
PointChangeExchanged ==
    /\ peerKind = "listener"
    /\ nOps = 2
    /\ sci.last.op = "receive_telegram"
    /\ sci.last.telegram = <<FirstChange>>

\* the listener's last step called the callback on the Data frame that
\* carries FirstChange
PointChangeReceived ==
    /\ l_last.event = "frame"
    /\ l_last.cb = 1
    /\ l_last.msg[1].data = TelegramBytes(FirstChange)

\* C22: sender 42/"C" runs against listener 1337/"S" and sends
\* ChangeLocation with payload 0x02.  The frames are, in order, the ConnReq
\* and the ConnResp of the handshake, the Data frame of the telegram, which
\* confirms the ConnResp, and the Data frame of the answer, which confirms
\* that Data frame; the listener's callback receives a telegram of protocol
\* P and type ChangeLocation whose first payload byte is 0x02 and answers
\* with LocationStatus; the sender's next callback receives a
\* LocationStatus telegram whose first payload byte is 0x02
C22_PointChangeEndToEnd ==
    /\ PointChangeExchanged =>
        /\ conn.state = "Up"
        /\ conn.peer = ListenerId
        /\ handshake.base # None
        /\ handshake.n = 1
        /\ Len(sci.last.wrote) = 1
        /\ sci.last.wrote[1].message_type = "Data"
        /\ sci.last.wrote[1].sender = ClientId
        /\ sci.last.wrote[1].receiver = ListenerId
        /\ sci.last.wrote[1].confirmed_sequence_number = handshake.base
        /\ sci.last.wrote[1].data = TelegramBytes(FirstChange)
        /\ c_last.reply[1].message_type = "Data"
        /\ c_last.reply[1].sender = ListenerId
        /\ c_last.reply[1].confirmed_sequence_number = sci.last.wrote[1].sequence_number
        /\ sci.last.res = "Ok"
        /\ cpc = "run_cb"
        /\ Len(previous_data) = 1
        /\ previous_data[1].protocol_type = SCIProtocolP
        /\ previous_data[1].message_type = scip_location_status
        /\ previous_data[1].payload.data[1] = 2
    /\ PointChangeReceived =>
        LET arg == TelegramFrom(l_last.msg[1].data).telegram IN
        /\ Len(arg) = 1
        /\ arg[1].protocol_type = SCIProtocolP
        /\ arg[1].message_type = scip_change_location
        /\ arg[1].payload.data[1] = 2
        /\ l_last.ret = <<TelegramBytes(FirstStatus)>>
        /\ l_last.outcome = "continue" =>
              /\ Len(l_last.replies) = 1
              /\ l_last.replies[1].message_type = "Data"
              /\ l_last.replies[1].data = TelegramBytes(FirstStatus)

C22_Witness ==
    /\ PointChangeExchanged
    /\ PointChangeReceived
    /\ c_last.reply = l_last.replies
    /\ previous_data[1].payload.data[1] = 2

\* the bytes written for a constructed message were read whole and decoded
WholeDecoded == codec.step = "decoded" /\ ~codec.foreign /\ codec.read = codec.written

\* the message was decoded and its accessors return what those of the
\* constructed message return
RoundTrips ==
    /\ codec.decoded[1].kind = "Ok"
    /\ MessageView(codec.decoded[1].msg[1], codec.endian) = MessageView(codec.msg, codec.endian)

\* C23: for every message kind and field set, decoding the bytes of the
\* constructed message yields a message with the same length, type,
\* receiver, sender, sequence numbers, timestamps and data()
C23_MessageRoundTrip == WholeDecoded => RoundTrips

\* the round trip of every kind but DiscReq
RoundTripButDiscReq == WholeDecoded /\ codec.args.message_type # "DiscReq" => RoundTrips

\* a DiscReq read back: data() is empty before and four bytes after
DiscReqDataGrows ==
    /\ WholeDecoded
    /\ codec.args.message_type = "DiscReq"
    /\ Message_data(codec.msg) = <<>>
    /\ Message_data(codec.decoded[1].msg[1]) = <<0, 0, 0, 0>>

\* C24: the number of bytes written for a constructed message equals its
\* length field, and the length is at least 36
C24_EncodedLengthIsLength ==
    codec.step \in {"written", "read", "decoded"} =>
        /\ Len(codec.written) = MessageField(codec.msg, 0, 2, codec.endian)
        /\ MessageField(codec.msg, 0, 2, codec.endian) >= HEADER_AND_CODE_LEN

\* the length field of a constructed message is at least 36
LengthAtLeastHeader ==
    codec.step # "none" => MessageField(codec.msg, 0, 2, codec.endian) >= HEADER_AND_CODE_LEN

\* the received buffer is one of the malformed ones: shorter than 36 bytes,
\* a length field that differs from the number of bytes received, or a
\* message-type code outside the eight codes
MalformedRead ==
    \/ Len(codec.read) < HEADER_AND_CODE_LEN
    \/ from_ne_bytes(SubSeq(codec.read, 1, 2), codec.endian) # Len(codec.read)
    \/ codec.foreign

\* C25: decoding a malformed buffer returns an error value, not a message,
\* and does not abort
C25_MalformedIsError ==
    codec.step = "decoded" /\ MalformedRead => codec.decoded[1].kind = "Err"

\* decoding never returns an error value: a message or a panic
DecodeNeverErr == codec.step = "decoded" => codec.decoded[1].kind \in {"Ok", "panic"}

\* a buffer whose length field is not the number of bytes received is
\* decoded to a message
MismatchAccepted ==
    /\ codec.step = "decoded"
    /\ ~codec.foreign
    /\ Len(codec.read) = BUFFER_LEN
    /\ codec.decoded[1].kind = "Ok"

\* the telegram under the codec, its encoding and its decoding
CodecTelegram == codec.telegram
CodecDecoded == codec.decoded[1]

\* the first 20 bytes of a name
NamePrefix(name) == SubSeq(name, 1, IF Len(name) < SCI_NAME_LEN THEN Len(name) ELSE SCI_NAME_LEN)

\* a telegram of protocol P, LS or TDS with a message type of that protocol
\* was encoded and the encoding decoded
DefinedTelegramDecoded ==
    /\ codec.step = "decoded"
    /\ CodecTelegram.protocol_type \in {SCIProtocolP, SCIProtocolLS, SCIProtocolTDS}
    /\ MessageTypeResolves(CodecTelegram.protocol_type, CodecTelegram.message_type)

\* C26: decoding the encoding of a telegram of P, LS or TDS yields the same
\* protocol type, message type, sender name, receiver name, payload bytes
\* and used-length; a name longer than 20 bytes comes back as its 20-byte
\* prefix
C26_TelegramRoundTrip ==
    DefinedTelegramDecoded =>
        /\ CodecDecoded.kind = "Ok"
        /\ CodecDecoded.telegram[1].protocol_type = CodecTelegram.protocol_type
        /\ CodecDecoded.telegram[1].message_type = CodecTelegram.message_type
        /\ CodecDecoded.telegram[1].sender = NamePrefix(CodecTelegram.sender)
        /\ CodecDecoded.telegram[1].receiver = NamePrefix(CodecTelegram.receiver)
        /\ CodecDecoded.telegram[1].payload.data = CodecTelegram.payload.data
        /\ CodecDecoded.telegram[1].payload.used = CodecTelegram.payload.used

\* what the round trip does yield: the padded names as decoded, and a
\* used-length of 85 for every payload that is not empty
TelegramRoundTripYields ==
    DefinedTelegramDecoded =>
        /\ CodecDecoded.kind = "Ok"
        /\ CodecDecoded.telegram[1].protocol_type = CodecTelegram.protocol_type
        /\ CodecDecoded.telegram[1].message_type = CodecTelegram.message_type
        /\ CodecDecoded.telegram[1].sender =
               from_utf8_lossy(str_to_sci_name(CodecTelegram.sender))
        /\ CodecDecoded.telegram[1].receiver =
               from_utf8_lossy(str_to_sci_name(CodecTelegram.receiver))
        /\ CodecDecoded.telegram[1].payload.data = CodecTelegram.payload.data
        /\ CodecDecoded.telegram[1].payload.used =
               IF CodecTelegram.payload.used > 0 THEN SCI_PAYLOAD_LEN ELSE 0

\* C27: the encoding has exactly 43 + payload.used bytes: protocol type,
\* message type (little-endian), the two 20-byte names, then exactly the
\* first payload.used bytes of the payload buffer
C27_EncodingLength ==
    codec.step \in {"encoded", "decoded"} =>
        /\ Len(codec.bytes) = 3 + 2 * SCI_NAME_LEN + CodecTelegram.payload.used
        /\ codec.bytes[1] = CodecTelegram.protocol_type
        /\ codec.bytes[2] + 256 * codec.bytes[3] = CodecTelegram.message_type
        /\ SubSeq(codec.bytes, 4 + 2 * SCI_NAME_LEN, Len(codec.bytes))
               = SubSeq(CodecTelegram.payload.data, 1, CodecTelegram.payload.used)

\* the length the encoding does have
EncodingLengthIs ==
    codec.step \in {"encoded", "decoded"} =>
        Len(codec.bytes) = 3 + 2 * SCI_NAME_LEN
                           + (IF CodecTelegram.payload.used > 0 THEN SCI_PAYLOAD_LEN ELSE 0)

\* the name field of an encoding that starts at byte i (counted from 1)
NameFieldOk(bytes, i, name) ==
    /\ \A k \in i..(i + SCI_NAME_LEN - 1) : bytes[k] >= 32
    /\ \A k \in (i + Len(name))..(i + SCI_NAME_LEN - 1) : bytes[k] = SCI_NAME_PAD

\* C28: bytes 3..23 and 23..43 of an encoded telegram contain no byte less
\* than 0x20, and every byte of a name field after the name is 0x5F
C28_NamePadding ==
    codec.step \in {"encoded", "decoded"} =>
        /\ NameFieldOk(codec.bytes, 4, CodecTelegram.sender)
        /\ NameFieldOk(codec.bytes, 4 + SCI_NAME_LEN, CodecTelegram.receiver)

\* the padding alone: every byte of a name field after the name is 0x5F
PaddingIsUnderscore ==
    codec.step \in {"encoded", "decoded"} =>
        /\ \A k \in (4 + Len(CodecTelegram.sender))..(3 + SCI_NAME_LEN) :
               codec.bytes[k] = SCI_NAME_PAD
        /\ \A k \in (4 + SCI_NAME_LEN + Len(CodecTelegram.receiver))..(3 + 2 * SCI_NAME_LEN) :
               codec.bytes[k] = SCI_NAME_PAD

\* C29: for digits 0..9, to_bcd([d0, d1, d2, d3]) is
\* d0*4096 + d1*256 + d2*16 + d3; with a digit greater than 9 it fails
\* instead of returning a value
C29_ToBcd ==
    codec.step = "returned" =>
        LET d == codec.digits IN
        IF \A i \in 1..4 : d[i] \in 0..9
        THEN codec.result = <<d[1] * 4096 + d[2] * 256 + d[3] * 16 + d[4]>>
        ELSE codec.result = <<>>

C29_Witness ==
    /\ codec.step = "returned"
    /\ codec.digits = <<1, 2, 3, 4>>
    /\ codec.result = <<4660>>

C29_FailureReached ==
    /\ codec.step = "returned"
    /\ codec.digits = <<1, 2, 3, 10>>
    /\ codec.result = <<>>

\* C30: decoding accepts the code c under the protocol byte p exactly when p
\* is P, LS or TDS and c is a code of that protocol's resolver, or p is
\* another variant of ProtocolType and c is a generic code; 0x0001 is
\* ChangeLocation under P, ShowSignalAspect under LS and FC under TDS
C30_MessageTypeAccepted ==
    /\ codec.step = "decoded" =>
        LET p == CodecTelegram.protocol_type
            c == CodecTelegram.message_type
        IN  CodecDecoded.kind = "Ok" <=>
               \/ p \in {SCIProtocolP, SCIProtocolLS, SCIProtocolTDS} /\ MessageTypeResolves(p, c)
               \/ /\ p \in ProtocolTypes \ {SCIProtocolP, SCIProtocolLS, SCIProtocolTDS}
                  /\ c \in DOMAIN GenericNames
    /\ try_as_scip_message_type(1) = "ChangeLocation"
    /\ try_as_scils_message_type(1) = "ShowSignalAspect"
    /\ try_as_scitds_message_type(1) = "FC"

\* what decoding does accept: only P, LS and TDS, with a code of the
\* protocol's resolver; every other protocol byte is UnknownProtocol
OnlyThreeProtocolsAccepted ==
    codec.step = "decoded" =>
        LET p == CodecTelegram.protocol_type
            c == CodecTelegram.message_type
        IN  /\ CodecDecoded.kind = "Ok" <=>
                 p \in {SCIProtocolP, SCIProtocolLS, SCIProtocolTDS} /\ MessageTypeResolves(p, c)
            /\ p \notin {SCIProtocolP, SCIProtocolLS, SCIProtocolTDS} =>
                 CodecDecoded.err = "UnknownProtocol"

\* the last operation of the connection wrote a frame through next_seq_nr:
\* send_data, send_heartbeat, close_connection (also when drop calls it)
SentThroughNextSeqNr ==
    /\ c_last.op \in {"send_data", "send_heartbeat", "close_connection", "drop"}
    /\ c_last.wrote # <<>>

\* the connection's seq_nr before the last call, 0 when there was none
SeqNrBefore == IF c_last.pre_seq_nr = None THEN 0 ELSE c_last.pre_seq_nr

\* the reply to the heartbeat has not been read yet
BeforeReply == c_last.op = "send_heartbeat" => c_last.res = "pending"

\* C31: every message written by send_data, send_heartbeat or close_connection
\* carries (confirmed_sequence_number, sequence_number) = (c, c + 1), c being
\* the connection's seq_nr before the call (0 when there is none), and after
\* the write the connection's seq_nr is c + 1.
C31_SentPairAndSeqNr ==
    SentThroughNextSeqNr
    => /\ LastWritten.confirmed_sequence_number = SeqNrBefore
       /\ LastWritten.sequence_number = WrappingSucc(SeqNrBefore)
       /\ BeforeReply => conn.seq_nr = WrappingSucc(SeqNrBefore)

\* what holds of C31: the pair written is always (c, c + 1), and seq_nr is
\* c + 1 after the write when the connection had a seq_nr before the call
SentPairHolds ==
    SentThroughNextSeqNr
    => /\ LastWritten.confirmed_sequence_number = SeqNrBefore
       /\ LastWritten.sequence_number = WrappingSucc(SeqNrBefore)
       /\ (BeforeReply /\ c_last.pre_seq_nr # None)
          => conn.seq_nr = WrappingSucc(SeqNrBefore)

\* two sends in a row with the same sequence number: the second send of a
\* connection that had no seq_nr writes (0, 1) as the first did
SameSeqNrTwice ==
    /\ SentThroughNextSeqNr
    /\ c_last.prev.op = "send_data"
    /\ c_last.prev.nwrote = 1
    /\ c_last.pre_seq_nr = 0
    /\ conn.state = "Down"
    /\ LastWritten.sequence_number = 1
    /\ Len(c2l) = 2
    /\ c2l[1].sequence_number = c2l[2].sequence_number

\* the caller's operations so far were open_connection (which made the
\* connection Up), send_data and send_heartbeat, in this order, against a
\* RastaListener, and send_heartbeat returned Ok
HeartbeatAfterSendData ==
    /\ peerKind = "listener"
    /\ nStreams = 1
    /\ nOps = 3
    /\ c_last.op = "send_heartbeat"
    /\ c_last.res = "Ok"
    /\ c_last.pre_state = "Up"
    /\ c_last.prev.op = "send_data"
    /\ c_last.prev.res = "Ok"
    /\ c_last.prev.pre_state = "Up"

\* C32: in a sequence of send_data and send_heartbeat calls on an Up
\* connection against a RastaListener, with no receive_message in between, the
\* listener never fails with InvalidSeqNr and send_heartbeat adopts the
\* sequence number of the heartbeat reply to its own heartbeat.
C32_SendsStayInStep ==
    HeartbeatAfterSendData
    => /\ listenResult # "InvalidSeqNr"
       /\ LastReply.message_type = "HB"
       /\ LastReply.confirmed_sequence_number = LastWritten.sequence_number
       /\ conn.seq_nr = LastReply.sequence_number

\* what send_heartbeat reads after a send_data: the listener's reply to the
\* Data frame, which confirms the Data frame and not the heartbeat
HeartbeatReadsDataReply ==
    HeartbeatAfterSendData
    => /\ LastReply.message_type \in {"HB", "Data"}
       /\ WrappingSucc(LastReply.confirmed_sequence_number) = LastWritten.sequence_number
       /\ conn.seq_nr = IF LastReply.message_type = "HB"
                        THEN LastReply.sequence_number
                        ELSE LastWritten.sequence_number

\* the heartbeat adopted the sequence number of the reply to the Data frame
\* and is now behind the listener, whose last sequence number is the one of
\* its reply to the heartbeat
StaleReplyAdopted ==
    /\ HeartbeatAfterSendData
    /\ LastReply.message_type = "HB"
    /\ conn.seq_nr = LastReply.sequence_number
    /\ l_last.event = "frame"
    /\ LastFrame = LastWritten
    /\ l_last.outcome = "continue"
    /\ listener.seq_nr = WrappingSucc(WrappingSucc(conn.seq_nr))

\* run is at the head of its loop and the listener is in the read loop of the
\* connection's stream: the handshake and every turn so far completed, and no
\* read timed out
AtLoopStart ==
    /\ cpc = "run_cb"
    /\ lpc = "read"
    /\ lstream = "open"

\* C33: between a RastaConnection driven only by run and a RastaListener, with
\* no timeouts, at the start of every loop iteration the connection's seq_nr
\* equals the listener's last sequence number and no frame is unread, and the
\* listener never fails with InvalidSeqNr.
C33_RunKeepsInStep ==
    /\ AtLoopStart => /\ conn.seq_nr = listener.seq_nr
                      /\ conn.seq_nr # None
                      /\ c2l = <<>>
    /\ listenResult # "InvalidSeqNr"

\* a Data turn and then a Wait turn completed, and the two are in step
C33_Witness ==
    /\ AtLoopStart
    /\ nOps = 3
    /\ c_last.op = "send_heartbeat"
    /\ c_last.res = "Ok"
    /\ c_last.prev.op = "receive_message"
    /\ LastReply.message_type = "HB"
    /\ conn.seq_nr = listener.seq_nr
    /\ conn.seq_nr = LastReply.sequence_number

\* the listener has handled the ConnReq of a following client: the frame is
\* the one written by the first operation of the second connection, and the
\* listener came to it with an empty peer set and the last sequence number of
\* the first client's session, which a DiscReq of the known peer ended (a
\* session ended by a failed read leaves no sequence number)
NextClientConnReq ==
    /\ nStreams = 2
    /\ c_last.op = "open_connection"
    /\ c_last.prev.op = "try_new"
    /\ c_last.wrote # <<>>
    /\ l_last.event = "frame"
    /\ LastFrame = MessageFrom(LastWritten)
    /\ LastFrame.message_type = "ConnReq"
    /\ l_last.pre_connections = <<>>
    /\ l_last.pre_seq_nr # None

\* C34: a listener that served one client through handshake and clean
\* disconnect answers the ConnReq of a following client with a ConnResp,
\* records the new peer, and listen does not return.
C34_ServesNextClient ==
    NextClientConnReq
    => /\ lpc = "read"
       /\ Len(l_last.replies) = 1
       /\ l_last.replies[1].message_type = "ConnResp"
       /\ Contains(listener.connections, LastFrame.sender)

\* what happens instead: the sequence number of the DiscReq is still the
\* listener's last sequence number, the ConnReq confirms 0, and listen returns
\* InvalidSeqNr without a reply (unless the DiscReq's sequence number was 0)
NextClientRejected ==
    (NextClientConnReq /\ l_last.pre_seq_nr # 0)
    => /\ lpc = "returned"
       /\ listenResult = "InvalidSeqNr"
       /\ l_last.replies = <<>>
       /\ listener.connections = <<>>

\* the listener has handled the first frame of a stream, a Data frame or a
\* heartbeat: the frame written by the first operation of the connection, so
\* that no ConnReq was received on this stream before it
FirstFrameNoConnReq ==
    /\ c_last.op \in {"send_data", "send_heartbeat"}
    /\ c_last.prev.op = "try_new"
    /\ c_last.wrote # <<>>
    /\ l_last.event = "frame"
    /\ LastFrame = MessageFrom(LastWritten)

\* C35: the listener invokes the callback for a Data frame, and replies to a
\* Data frame or a heartbeat, only if a ConnReq of the frame's sender was
\* received earlier on the same stream; a peer id recorded during an earlier
\* stream does not make the sender known.
C35_KnownOnlyOnOwnStream ==
    FirstFrameNoConnReq => /\ l_last.cb = 0
                           /\ l_last.replies = <<>>

\* on the first stream the first frame is never answered
FirstStreamUnanswered ==
    (FirstFrameNoConnReq /\ nStreams = 1) => /\ l_last.cb = 0
                                            /\ l_last.replies = <<>>

\* the peer id pushed on the first stream, which ended with a read of 0 bytes
\* and without a DiscReq, makes the sender known on the second stream: its
\* Data frame is handed to the callback and answered
StalePeerAnswered ==
    /\ FirstFrameNoConnReq
    /\ nStreams = 2
    /\ LastFrame.message_type = "Data"
    /\ l_last.pre_connections = <<LastFrame.sender>>
    /\ l_last.pre_seq_nr = None
    /\ l_last.cb = 1
    /\ Len(l_last.replies) = 1

\* a read of the listener failed (error or timeout) while the peer set was
\* empty: no ConnReq was recorded on the stream
ReadFailedNoPeer ==
    /\ l_last.event \in {"read_timeout", "read_error"}
    /\ l_last.pre_connections = <<>>

\* C36: a read error or read timeout on a stream on which no ConnReq was
\* received ends only that stream's session: the listener does not abort,
\* resets its last sequence number and goes on to accept the next stream.
C36_ReadFailureWithoutPeer ==
    ReadFailedNoPeer => /\ lpc = "accept"
                        /\ listener.seq_nr = None

\* what happens instead: the pop of the empty peer set yields None, whose
\* unwrap panics; the sequence number is left as it was
ReadFailureWithoutPeerPanics ==
    ReadFailedNoPeer => /\ lpc = "panicked"
                        /\ listener.seq_nr = l_last.pre_seq_nr

\* send_data or send_heartbeat was called while the state was not Up
SentWhileNotUp ==
    /\ c_last.op \in {"send_data", "send_heartbeat"}
    /\ c_last.pre_state # "Up"

\* C37: a RastaConnection writes a Data frame or a heartbeat only while its
\* state is Up: send_data and send_heartbeat called in state Down or Closed
\* write nothing, so no frame follows the DiscReq of a closed connection.
C37_SendsOnlyWhenUp ==
    SentWhileNotUp => c_last.wrote = <<>>

\* what holds instead: neither operation looks at the state; unless the write
\* itself fails or the sequence number overflows, the frame is written
SendsWhateverTheState ==
    (SentWhileNotUp /\ c_last.res \notin {"IOError", "panic"})
    => /\ Len(c_last.wrote) = 1
       /\ LastWritten.message_type = (IF c_last.op = "send_data" THEN "Data" ELSE "HB")

\* a Data frame written after the DiscReq of close_connection
FrameAfterDiscReq ==
    /\ c_last.op = "send_data"
    /\ c_last.pre_state = "Closed"
    /\ c_last.prev.op = "close_connection"
    /\ c_last.prev.pre_state = "Up"
    /\ c_last.prev.nwrote = 1
    /\ Len(c_last.wrote) = 1
    /\ LastWritten.message_type = "Data"

\* C38: open_connection returns Ok only if the connection state is Up on
\* return: a reply that carries the version bytes "0301" but is not a ConnResp
\* does not make open_connection (or run) proceed as if connected.
C38_OpenOkMeansUp ==
    (c_last.op = "open_connection" /\ c_last.res = "Ok") => conn.state = "Up"

\* what holds instead: open_connection returns Ok for every reply whose data
\* begin with the version bytes, and only a ConnResp changes the state
OpenOkMeansVersion ==
    (c_last.op = "open_connection" /\ c_last.res = "Ok")
    => /\ HasVersion(LastReply, RASTA_VERSION)
       /\ LastReply.message_type # "ConnResp" => conn.state = c_last.pre_state

\* run goes on to its callback although the connection is still Down: the
\* reply carried the version bytes and was no ConnResp
RunProceedsWhileDown ==
    /\ cpc = "run_cb"
    /\ c_last.op = "open_connection"
    /\ c_last.res = "Ok"
    /\ LastReply.message_type # "ConnResp"
    /\ conn.state = "Down"
    /\ conn.seq_nr = None

\* the signal aspect under the codec was encoded and the payload decoded
AspectDecoded == codec.step = "decoded"

\* the driveway byte of the payload: downstream in the high nibble, upstream
\* in the low nibble
DrivewayByteOk ==
    LET b == codec.payload[1].data[8] IN
    /\ b \div 16 = codec.aspect.downstream_driveway_information
    /\ b % 16 = codec.aspect.upstream_driveway_information

\* C39: for every SCILSSignalAspect a (the default driveway value
\* NoInformation and any nationally specified bytes included), decoding the
\* payload produced from a succeeds and yields the same fields, with
\* downstream in the high nibble and upstream in the low nibble of byte 7.
C39_SignalAspectRoundTrip ==
    AspectDecoded
    => /\ codec.decoded[1].kind = "Ok"
       /\ codec.decoded[1].aspect = <<codec.aspect>>
       /\ DrivewayByteOk

\* what holds instead.  The payload has nine bytes, without the nationally
\* specified ones, and its driveway byte is as claimed.  Decoding its used
\* part never succeeds; decoding its whole data succeeds exactly when no
\* driveway is NoInformation (whose nibble 0xF try_from rejects), and then
\* every field comes back but the nationally specified bytes, which are zero.
SignalAspectRoundTripYields ==
    AspectDecoded
    => LET a == codec.aspect
           r == codec.decoded[1]
           noInfo == 15 \in {a.upstream_driveway_information,
                             a.downstream_driveway_information}
       IN  /\ codec.payload[1].used = 9
           /\ DrivewayByteOk
           /\ codec.slice = "used" => r.kind = (IF noInfo THEN "Err" ELSE "panic")
           /\ codec.slice = "data" =>
                 IF noInfo THEN r.kind = "Err"
                 ELSE /\ r.kind = "Ok"
                      /\ r.aspect[1] = [a EXCEPT !.nationally_specified_information =
                                                     [i \in 1..9 |-> 0]]

\* the default driveway information does not decode
DefaultDrivewayRejected ==
    /\ AspectDecoded
    /\ codec.slice = "data"
    /\ codec.aspect.upstream_driveway_information = 15
    /\ codec.aspect.downstream_driveway_information = 15
    /\ codec.aspect.nationally_specified_information = [i \in 1..9 |-> 0]
    /\ codec.decoded[1].kind = "Err"

\* C40: for every boolean b and every valid combination of the other fields,
\* the 7-byte payload of the telegram built by tvps_occupancy_status with
\* can_be_forced_to_clear = b parses to a value whose can_be_forced_to_clear
\* is b, and equals the payload made by converting that value back.
C40_ForceClearRoundTrip ==
    /\ codec.step \in {"parsed", "converted"}
       => /\ codec.telegram[1].payload.used = 7
          /\ codec.parsed[1].kind = "Ok"
          /\ codec.parsed[1].value[1].can_be_forced_to_clear
                 = codec.args.can_be_forced_to_clear
    /\ codec.step = "converted" => codec.back[1] = codec.telegram[1].payload

\* what holds instead: the payload parses, to the flag negated (the
\* constructor writes 1 for true, the parser reads 1 as false), every other
\* field comes back (the filling level as the u16 of the same two bytes), and
\* the conversion back, which writes 2 for true, yields the same payload
ForceClearComesBackNegated ==
    /\ codec.step \in {"parsed", "converted"}
       => /\ codec.telegram[1].payload.used = 7
          /\ codec.parsed[1].kind = "Ok"
          /\ codec.parsed[1].value[1] =
                 [codec.args EXCEPT
                     !.can_be_forced_to_clear = ~@,
                     !.filling_level = (@ + 65536) % 65536]
    /\ codec.step = "converted" => codec.back[1] = codec.telegram[1].payload

\* the telegram built with the flag set parses to a value with the flag clear
ForceClearLost ==
    /\ codec.step = "converted"
    /\ codec.args.can_be_forced_to_clear
    /\ codec.telegram[1].payload.data[2] = 1
    /\ ~codec.parsed[1].value[1].can_be_forced_to_clear
    /\ codec.back[1].data[2] = 1

====
